---- MODULE Spec2Model ----
(***************************************************************************)
(* Ledger and undo engine of paytrackbot (bot/database_manager.py,         *)
(* bot/undo_helpers.py, bot/customer_service.py, bot/helpers.py).          *)
(*                                                                         *)
(* The store is one SQLite file reached through one shared connection.     *)
(* `committed` is the durable database, `live` is what the connection      *)
(* sees (durable rows plus its own uncommitted writes) and `in_tx` is the  *)
(* connection's in_transaction flag (Python's sqlite3 opens a transaction  *)
(* implicitly before INSERT/UPDATE/DELETE).  Handlers run one at a time    *)
(* (main.py builds the Application without concurrent updates), so every   *)
(* public DatabaseManager call is one action.                              *)
(*                                                                         *)
(* Amounts and balances are REAL columns (binary floating point).  The     *)
(* model keeps the rounding of every sum but scales it down: a REAL holds  *)
(* Precision significant bits instead of 53, and amounts are whole units.  *)
(*                                                                         *)
(* `clock` is the wall clock that CURRENT_TIMESTAMP and datetime('now')    *)
(* read, counted in ticks; the 30 days of log retention are scaled down    *)
(* to Retention ticks.                                                     *)
(*                                                                         *)
(* `tasks` holds the add_transaction coroutines that are suspended between *)
(* two of their awaited calls on the connection.  They stay idle in the    *)
(* specifications that run one call at a time; InterleaveSpec schedules    *)
(* the coroutines of different admins call by call, SameCustomerSpec two   *)
(* coroutines of one admin that add to the same customer.                  *)
(***************************************************************************)
EXTENDS Integers, Sequences, FiniteSets, TLC

VARIABLES committed, live, in_tx, user_data, last, undone, clock, tasks

vars == <<committed, live, in_tx, user_data, last, undone, clock, tasks>>

----------------------------------------------------------------------------
(* Bounds of the model *)

\* AUTOINCREMENT ceiling for customers.id explored by the model
MaxCustomerId == 2
\* AUTOINCREMENT ceiling for action_logs.id explored by the model
MaxLogId == 4
\* largest transactions.id explored by the model
MaxTxId == 2
\* largest amount drawn for a transaction
MaxAmount == 1
\* largest amount drawn where only the ledger is exercised
MaxLedgerAmount == 3
\* significant bits a REAL keeps in the model (SQLite's REAL keeps 53)
Precision == 2
\* ticks a log row is retained before the sweep archives it (the store keeps
\* 30 days, compared to the second)
Retention == 2
\* last tick of the wall clock explored by the model
MaxClock == 5
\* largest number of ticks that pass between two statements of one call
MaxSweepDelay == 2
\* largest page size asked of a pager view
MaxLimit == 2

Admins == {1, 2}
\* the admins that keep a chat session (a selected customer); the others
\* call with an empty user_data
SessionAdmins == {1}
CustomerIdArgs == 1..MaxCustomerId
\* amounts the command layer lets through (handlers.py: amount <= 0 is refused)
Amounts == 1..MaxAmount
LedgerAmounts == 1..MaxLedgerAmount
\* amounts typed after /addtransaction, before the command layer checks them
RawAmounts == -1..MaxAmount
\* full names, as character sequences; all match DEFAULT_NAME_PATTERN's alphabet
Names == {<<"j", "d">>, <<"J", "D">>, <<"r", "o">>}
\* Python None, as stored in a nullable column or returned by a lookup
None == "None"
\* Python None where a row (a dict) is expected
NoRow == [is_none |-> TRUE]
\* the phone a customer is created with, and the phones it is changed to
AddPhones == {None}
NewPhones == {"555"}
\* the phones of the specification that follows a phone through its changes
PhoneArgs == {None, "555", "777"}
TypeArgs == {"sale", "payment", "gift"}
\* full names as they are typed, character by character: one with capitals
\* and spaces to spare, one in its normal form, a single word and a word with
\* a digit
TypedNames ==
    {<<" ", "J", "D", " ", " ", "d", "j">>, <<"r", "o", " ", "o", "k">>,
     <<"j", "d">>, <<"j", "5", " ", "d", "j">>}
\* the typed names that the name validation refuses
RefusedNames == {<<"j", "d">>, <<"j", "5", " ", "d", "j">>}
\* phones as they are typed: eight digits with separators, and three digits
\* after a letter
TypedPhones ==
    {<<"5", "5", "-", "5", "5", "5", "-", "5", "5", "6">>,
     <<"a", "5", "5", "5">>}
\* the typed phones that the phone validation refuses
RefusedPhones == {<<"a", "5", "5", "5">>}
\* page sizes asked of a pager view
Limits == 0..MaxLimit
\* the customers of a store that the pager views are run on: their names, in
\* the order they were added, and what was recorded for each of them
PagerNames == << <<"j", "d">>, <<"r", "o">>, <<"a", "l">> >>
Ledgers ==
    {<<>>, <<"sale">>, <<"sale", "sale">>, <<"payment">>, <<"payment", "payment">>}
Descriptions == {"d"}
\* the clock value CURRENT_TIMESTAMP yields
Now == clock

----------------------------------------------------------------------------
(* Generic helpers *)

Max(S) == IF S = {} THEN 0 ELSE CHOOSE x \in S : \A y \in S : y <= x

RECURSIVE SumAmounts(_)
SumAmounts(S) ==
    IF S = {} THEN 0
    ELSE LET t == CHOOSE x \in S : TRUE IN t.amount + SumAmounts(S \ {t})

----------------------------------------------------------------------------
(* bot/types.py *)

TransactionType == {"sale", "payment"}

\* the ReportView members that fetch_balances_page has a configuration for
BalanceViews == {"due_customers", "overpaid_customers"}

ActionType ==
    {"change_phone", "add_customer", "add_transaction", "delete_customer",
     "rename_customer"}

----------------------------------------------------------------------------
(* SQLite schema semantics (DatabaseManager.init_database) *)

UpperLetters ==
    <<"A", "B", "C", "D", "E", "F", "G", "H", "I", "J", "K", "L", "M",
      "N", "O", "P", "Q", "R", "S", "T", "U", "V", "W", "X", "Y", "Z">>

LowerLetters ==
    <<"a", "b", "c", "d", "e", "f", "g", "h", "i", "j", "k", "l", "m",
      "n", "o", "p", "q", "r", "s", "t", "u", "v", "w", "x", "y", "z">>

FoldChar(ch) ==
    IF \E i \in 1..26 : UpperLetters[i] = ch
    THEN LowerLetters[CHOOSE i \in 1..26 : UpperLetters[i] = ch]
    ELSE ch

\* the BINARY collation, which NOCASE is told apart from: no folding
NoCaseBinary(name) == name

\* COLLATE NOCASE: the 26 ASCII upper case letters fold to lower case
NoCase(name) == [i \in DOMAIN name |-> FoldChar(name[i])]

\* a fullname column without its UNIQUE index, which the index is told apart from
UniqueViolationAbsent(db, fullname, except_id) == FALSE

\* fullname TEXT UNIQUE NOT NULL COLLATE NOCASE: the index spans every admin
UniqueViolation(db, fullname, except_id) ==
    \E c \in db.customers :
        c.id # except_id /\ NoCase(c.fullname) = NoCase(fullname)

\* the rule without AUTOINCREMENT, which it is told apart from: ids of deleted
\* rows come back
AutoincrementIdReusing(seq, ids) == Max(ids) + 1

\* INTEGER PRIMARY KEY AUTOINCREMENT: one more than the largest id ever used
AutoincrementId(seq, ids) == Max(ids \cup {seq}) + 1

\* INTEGER PRIMARY KEY (transactions): one more than the largest live rowid
RowId(ids) == Max(ids) + 1

EmptyDb ==
    [customers |-> {}, transactions |-> {}, action_logs |-> {},
     action_logs_archive |-> {}, seq_customers |-> 0, seq_action_logs |-> 0]

----------------------------------------------------------------------------
(* The shared connection: conn = [live, committed, in_tx] *)

Conn(l, c, t) == [live |-> l, committed |-> c, in_tx |-> t]

\* sqlite3 legacy isolation level: a DML statement first opens a transaction
Dml(conn, db) == Conn(db, conn.committed, TRUE)

Commit(conn) == Conn(conn.live, conn.live, FALSE)

Rollback(conn) == Conn(conn.committed, conn.committed, FALSE)

\* `with_commit and await self.conn.commit()`
CommitIf(with_commit, conn) == IF with_commit THEN Commit(conn) ELSE conn

\* a local variable: the value is computed once and named in what follows
With(value, Rest(_)) == Rest(value)

\* what a call hands back: the connection, the outcome and the returned value
\* res is "ok", "AppError" (the user-facing error) or "Exception" (any other)
Result(conn, res, ret) == [conn |-> conn, res |-> res, ret |-> ret]

----------------------------------------------------------------------------
(* Action log *)

\* json.dumps / json.loads of a payload of ints, strings, null, maps and lists
json_dumps(action_info) == <<"json", action_info>>

json_loads(text) == text[2]

add_action_log(conn, action_type, customer_id, admin_id, action_info, with_commit) ==
    LET db == conn.live
        id == AutoincrementId(db.seq_action_logs, {l.id : l \in db.action_logs})
        row == [id |-> id, admin_id |-> admin_id, customer_id |-> customer_id,
                action_type |-> action_type, payload |-> json_dumps(action_info),
                created_at |-> Now]
    IN CommitIf(with_commit,
                Dml(conn, [db EXCEPT !.action_logs = @ \cup {row},
                                     !.seq_action_logs = id]))

\* ORDER BY id ASC: the oldest row of the admin
_fetch_first_log(conn, admin_id) ==
    LET mine == {l \in conn.live.action_logs : l.admin_id = admin_id}
    IN IF mine = {} THEN NoRow
       ELSE CHOOSE l \in mine : \A m \in mine : l.id <= m.id

_fetch_last_log(conn, admin_id) ==
    LET mine == {l \in conn.live.action_logs : l.admin_id = admin_id}
    IN IF mine = {} THEN NoRow
       ELSE CHOOSE l \in mine : \A m \in mine : m.id <= l.id

\* datetime('now', '-30 day'), evaluated by a statement that runs at `now`
Cutoff(now) == now - Retention

\* INSERT INTO action_logs_archive SELECT ... WHERE created_at < cutoff, then
\* DELETE FROM action_logs WHERE created_at < cutoff, then the commit; each
\* statement evaluates datetime('now') when it runs
clear_old_logs(conn, now_insert, now_delete) ==
    LET db == conn.live
        db1 == [db EXCEPT !.action_logs_archive =
                   @ \cup {l \in db.action_logs :
                              l.created_at < Cutoff(now_insert)}]
        db2 == [db1 EXCEPT !.action_logs =
                   {l \in @ : ~(l.created_at < Cutoff(now_delete))}]
    IN Result(Commit(Dml(conn, db2)), "ok", None)

----------------------------------------------------------------------------
(* Customer methods *)

get_customer_by_id(conn, customer_id, admin_id) ==
    LET rows == {c \in conn.live.customers :
                    c.id = customer_id /\ c.admin_id = admin_id}
    IN IF rows = {} THEN NoRow
       ELSE LET c == CHOOSE c \in rows : TRUE
            IN [customer_id |-> c.id, fullname |-> c.fullname, phone |-> c.phone,
                balance |-> c.balance, created_at |-> c.created_at]

_get_customer_transactions(conn, customer_id, admin_id) ==
    {t \in conn.live.transactions :
        t.customer_id = customer_id /\ t.admin_id = admin_id}

add_customer(conn, fullname, phone, admin_id, with_commit, with_logging) ==
    LET db == conn.live
        id == AutoincrementId(db.seq_customers, {c.id : c \in db.customers})
        row == [id |-> id, fullname |-> fullname, phone |-> phone,
                admin_id |-> admin_id, balance |-> 0, created_at |-> Now]
        c1 == Dml(conn, [db EXCEPT !.customers = @ \cup {row},
                                   !.seq_customers = id])
        payload == [undo_args |-> [customer_id |-> id, admin_id |-> admin_id]]
    IN IF UniqueViolation(db, fullname, 0)
       THEN \* aiosqlite.IntegrityError: rollback, AppError
            Result(Rollback(Dml(conn, db)), "AppError", 0)
       ELSE \* add_action_log is called with its default with_commit=True
            Result(CommitIf(with_commit,
                            IF with_logging
                            THEN add_action_log(c1, "add_customer", id, admin_id,
                                                payload, TRUE)
                            ELSE c1),
                   "ok", id)

\* the DELETE with a cascade to the action logs as well, which the schema is
\* told apart from
delete_customer_row_logs_cascade(c1, customer_id, admin_id, with_commit) ==
    LET db == c1.live
        rows == {c \in db.customers : c.id = customer_id /\ c.admin_id = admin_id}
        c2 == Dml(c1, [db EXCEPT !.customers = @ \ rows,
                                 !.transactions =
                                     {t \in @ : t.customer_id # customer_id},
                                 !.action_logs =
                                     {l \in @ : l.customer_id # customer_id}])
    IN IF rows = {}
       THEN Result(Rollback(c2), "Exception", None)
       ELSE Result(CommitIf(with_commit, c2), "ok", CHOOSE c \in rows : TRUE)

\* the DELETE without ON DELETE CASCADE, which the DELETE is told apart from
delete_customer_row_no_cascade(c1, customer_id, admin_id, with_commit) ==
    LET db == c1.live
        rows == {c \in db.customers : c.id = customer_id /\ c.admin_id = admin_id}
        c2 == Dml(c1, [db EXCEPT !.customers = @ \ rows])
    IN IF rows = {}
       THEN Result(Rollback(c2), "Exception", None)
       ELSE Result(CommitIf(with_commit, c2), "ok", CHOOSE c \in rows : TRUE)

\* DELETE FROM customers ... RETURNING *, on the connection c1
delete_customer_row(c1, customer_id, admin_id, with_commit) ==
    LET db == c1.live
        rows == {c \in db.customers : c.id = customer_id /\ c.admin_id = admin_id}
        \* ON DELETE CASCADE removes every transaction of the customer
        c2 == Dml(c1, [db EXCEPT !.customers = @ \ rows,
                                 !.transactions =
                                     {t \in @ : t.customer_id # customer_id}])
    IN IF rows = {}
       THEN \* dict(None): TypeError, rollback, generic error
            Result(Rollback(c2), "Exception", None)
       ELSE Result(CommitIf(with_commit, c2), "ok", CHOOSE c \in rows : TRUE)

delete_customer(conn, customer_id, admin_id, with_commit, with_logging) ==
    IF ~with_logging
    THEN delete_customer_row(conn, customer_id, admin_id, with_commit)
    ELSE With(get_customer_by_id(conn, customer_id, admin_id), LAMBDA customer :
         IF customer = NoRow
         THEN \* undo_args.update(None): TypeError, rollback, generic error
              Result(Rollback(conn), "Exception", None)
         ELSE delete_customer_row(
                  add_action_log(conn, "delete_customer", customer_id, admin_id,
                      [undo_args |->
                          [customer_id |-> customer.customer_id,
                           fullname |-> customer.fullname,
                           phone |-> customer.phone,
                           balance |-> customer.balance,
                           created_at |-> customer.created_at,
                           customer_transactions |->
                               _get_customer_transactions(conn, customer_id,
                                                          admin_id)]],
                      FALSE),
                  customer_id, admin_id, with_commit))

\* the connection after the action log of an update, when it is logged
LogIf(with_logging, conn, action_type, customer_id, admin_id, undo_args) ==
    IF with_logging
    THEN add_action_log(conn, action_type, customer_id, admin_id,
                        [undo_args |-> undo_args], FALSE)
    ELSE conn

\* UPDATE customers SET fullname = ? ... RETURNING balance, on the connection c1
update_customer_name_row(c1, new_name, customer_id, admin_id, customer, name_change_info) ==
    LET db == c1.live
        c2 == Dml(c1, [db EXCEPT !.customers =
                  {IF c.id = customer_id /\ c.admin_id = admin_id
                   THEN [c EXCEPT !.fullname = new_name] ELSE c : c \in @}])
    IN IF UniqueViolation(db, new_name, customer_id)
       THEN \* aiosqlite.IntegrityError: AppError is raised without a rollback
            Result(Dml(c1, db), "AppError", None)
       ELSE \* commit, then the rowcount check (1 after fetchone)
            Result(Commit(c2), "ok",
                   name_change_info @@ [balance |-> customer.balance])

update_customer_name(conn, new_name, customer_id, admin_id, with_logging) ==
    With(get_customer_by_id(conn, customer_id, admin_id), LAMBDA customer :
    IF customer = NoRow
    THEN \* customer['fullname'] outside the try block: TypeError, no rollback
         Result(conn, "Exception", None)
    ELSE With([admin_id |-> admin_id, customer_id |-> customer_id,
               new_name |-> new_name, old_name |-> customer.fullname],
              LAMBDA name_change_info :
         update_customer_name_row(
             LogIf(with_logging, conn, "rename_customer", customer_id, admin_id,
                   name_change_info),
             new_name, customer_id, admin_id, customer, name_change_info)))

\* UPDATE customers SET phone = ? ... RETURNING fullname, balance, on c1
update_customer_phone_row(c1, new_phone, customer_id, admin_id, customer, phone_change) ==
    LET db == c1.live
        c2 == Dml(c1, [db EXCEPT !.customers =
                  {IF c.id = customer_id /\ c.admin_id = admin_id
                   THEN [c EXCEPT !.phone = new_phone] ELSE c : c \in @}])
    IN Result(Commit(c2), "ok",
              phone_change @@ [fullname |-> customer.fullname,
                               balance |-> customer.balance])

update_customer_phone(conn, new_phone, customer_id, admin_id, with_logging) ==
    With(get_customer_by_id(conn, customer_id, admin_id), LAMBDA customer :
    IF customer = NoRow
    THEN \* customer['phone'] outside the try block: TypeError, no rollback
         Result(conn, "Exception", None)
    ELSE With([admin_id |-> admin_id, customer_id |-> customer_id,
               new_phone |-> new_phone, old_phone |-> customer.phone],
              LAMBDA phone_change :
         update_customer_phone_row(
             LogIf(with_logging, conn, "change_phone", customer_id, admin_id,
                   phone_change),
             new_phone, customer_id, admin_id, customer, phone_change)))

----------------------------------------------------------------------------
(* Transaction methods *)

\* 2^Precision: the first magnitude that no longer has a unit in the last place of 1
RealLimit == 2 ^ Precision

\* the unit in the last place of a REAL of magnitude x, from the unit u upwards
RECURSIVE Ulp(_, _)
Ulp(x, u) == IF x < RealLimit * u THEN u ELSE Ulp(x, 2 * u)

\* the nearest REAL to a magnitude x >= 0: round to nearest, ties to even
RoundMagnitude(x) ==
    LET u == Ulp(x, 1)
        q == x \div u
        r == x % u
    IN IF 2 * r > u \/ (2 * r = u /\ q % 2 = 1) THEN (q + 1) * u ELSE q * u

\* the REAL that stores the real number x
RealRound(x) == IF x < 0 THEN -RoundMagnitude(-x) ELSE RoundMagnitude(x)

\* balance + ? on REAL operands: the exact sum, rounded
RealAdd(a, b) == RealRound(a + b)

\* sign * abs(amount): payment is +amount, sale is -amount
BalanceDelta(amount, type_) ==
    (IF type_ = "payment" THEN 1 ELSE -1) * (IF amount < 0 THEN -amount ELSE amount)

\* UPDATE customers SET balance = ? (the delta takes the place of the balance)
_update_balance_overwrite(conn, amount, type_, customer_id) ==
    LET db == conn.live
        rows == {c \in db.customers : c.id = customer_id}
        c1 == Dml(conn, [db EXCEPT !.customers =
                  {IF c.id = customer_id
                   THEN [c EXCEPT !.balance = BalanceDelta(amount, type_)]
                   ELSE c : c \in @}])
    IN IF rows = {} THEN Result(c1, "Exception", None)
       ELSE Result(c1, "ok", [balance |-> BalanceDelta(amount, type_),
                              fullname |-> (CHOOSE c \in rows : TRUE).fullname])

_update_balance(conn, amount, type_, customer_id) ==
    LET db == conn.live
        rows == {c \in db.customers : c.id = customer_id}
        c1 == Dml(conn, [db EXCEPT !.customers =
                  {IF c.id = customer_id
                   THEN [c EXCEPT !.balance =
                               RealAdd(@, BalanceDelta(amount, type_))]
                   ELSE c : c \in @}])
        updated == CHOOSE c \in c1.live.customers : c.id = customer_id
    IN IF type_ \notin TransactionType
       THEN Result(conn, "AppError", None)
       ELSE IF rows = {}
       THEN \* dict(None): TypeError
            Result(c1, "Exception", None)
       ELSE Result(c1, "ok",
                   [balance |-> updated.balance, fullname |-> updated.fullname])

\* INSERT INTO transactions, the action log and the commit, on the connection c1
add_transaction_row(c1, amount, type_, description, customer_id, admin_id, with_commit, with_logging) ==
    LET db == c1.live
        transaction_id == RowId({t.id : t \in db.transactions})
        row == [id |-> transaction_id, amount |-> amount, type |-> type_,
                customer_id |-> customer_id, admin_id |-> admin_id,
                description |-> description, created_at |-> Now]
        transaction_log == [customer_id |-> customer_id, admin_id |-> admin_id,
                            transaction_id |-> transaction_id]
    IN Result(CommitIf(with_commit,
                       LogIf(with_logging,
                             Dml(c1, [db EXCEPT !.transactions = @ \cup {row}]),
                             "add_transaction", customer_id, admin_id,
                             transaction_log)),
              "ok", transaction_log)

\* add_transaction without its own test of the kind, which the test is told
\* apart from
add_transaction_unchecked(conn, amount, type_, description, customer_id, admin_id, with_commit, with_logging) ==
    With(_update_balance(conn, amount, type_, customer_id), LAMBDA r1 :
         IF r1.res # "ok"
         THEN Result(Rollback(r1.conn), "Exception", None)
         ELSE add_transaction_row(r1.conn, amount, type_, description,
                                  customer_id, admin_id, with_commit,
                                  with_logging))

add_transaction(conn, amount, type_, description, customer_id, admin_id, with_commit, with_logging) ==
    IF type_ \notin TransactionType
    THEN \* AppError('Invalid transaction type') is re-raised as it is
         Result(conn, "AppError", None)
    ELSE With(_update_balance(conn, amount, type_, customer_id), LAMBDA r1 :
         IF r1.res # "ok"
         THEN Result(Rollback(r1.conn), "Exception", None)
         ELSE add_transaction_row(r1.conn, amount, type_, description,
                                  customer_id, admin_id, with_commit,
                                  with_logging))

_restore_transactions(conn, customer_transactions) ==
    LET db == conn.live
        clash == \E t \in customer_transactions :
                     \/ \E u \in db.transactions : u.id = t.id
                     \/ ~ \E c \in db.customers : c.id = t.customer_id
    IN IF clash
       THEN \* aiosqlite.IntegrityError (primary key or foreign key)
            Result(Dml(conn, db), "Exception", None)
       ELSE Result(Dml(conn, [db EXCEPT !.transactions =
                                  @ \cup customer_transactions]), "ok", None)

_delete_transaction_with_id(conn, transaction_id) ==
    LET db == conn.live
        rows == {t \in db.transactions : t.id = transaction_id}
        c1 == Dml(conn, [db EXCEPT !.transactions = @ \ rows])
    IN IF rows = {}
       THEN \* dict(None): TypeError
            Result(c1, "Exception", None)
       ELSE Result(c1, "ok", CHOOSE t \in rows : TRUE)

----------------------------------------------------------------------------
(* Undo methods of DatabaseManager *)

\* UPDATE customers SET id = ?, created_at = ?, balance = ? WHERE id = temp_id,
\* then the transactions are put back
undo_delete_customer_row(c1, temp_id, customer_id, phone, fullname, created_at, balance, customer_transactions) ==
    LET db == c1.live
        id_taken == \E c \in db.customers : c.id = customer_id /\ c.id # temp_id
        c2 == Dml(c1, [db EXCEPT !.customers =
                  {IF c.id = temp_id
                   THEN [c EXCEPT !.id = customer_id, !.created_at = created_at,
                                  !.balance = balance]
                   ELSE c : c \in @}])
    IN IF id_taken
       THEN Result(Dml(c1, db), "Exception", None)
       ELSE With(_restore_transactions(c2, customer_transactions), LAMBDA r3 :
            IF r3.res # "ok" THEN r3
            ELSE \* cursor.rowcount is still 0 here: the row has not been fetched
                 Result(r3.conn, "ok",
                        [fullname |-> fullname, phone |-> phone,
                         balance |-> balance]))

undo_delete_customer(conn, customer_id, admin_id, phone, fullname, created_at, balance, customer_transactions) ==
    With(add_customer(conn, fullname, phone, admin_id, FALSE, FALSE), LAMBDA r1 :
    IF r1.res # "ok" THEN r1
    ELSE undo_delete_customer_row(r1.conn, r1.ret, customer_id, phone, fullname,
                                  created_at, balance, customer_transactions))

\* an inverse that leaves the customer, which the inverse is told apart from
undo_add_customer_kept(conn, customer_id, admin_id) ==
    Result(conn, "ok", get_customer_by_id(conn, customer_id, admin_id))

\* the inverse with the delete logged, which the inverse is told apart from
undo_add_customer_logged(conn, customer_id, admin_id) ==
    delete_customer(conn, customer_id, admin_id, TRUE, TRUE)

undo_add_customer(conn, customer_id, admin_id) ==
    delete_customer(conn, customer_id, admin_id, TRUE, FALSE)

\* the inverse with its two names swapped, which the inverse is told apart from
undo_update_customer_name_swapped(conn, admin_id, customer_id, new_name, old_name) ==
    update_customer_name(conn, new_name, customer_id, admin_id, FALSE)

undo_update_customer_name(conn, admin_id, customer_id, new_name, old_name) ==
    update_customer_name(conn, old_name, customer_id, admin_id, FALSE)

\* 'payment' if transaction['type'] == 'sale' else 'sale'
ReverseType(type_) == IF type_ = "sale" THEN "payment" ELSE "sale"

undo_add_transaction(conn, transaction_id) ==
    With(_delete_transaction_with_id(conn, transaction_id), LAMBDA r1 :
    IF r1.res # "ok" THEN Result(Rollback(r1.conn), "Exception", None)
    ELSE With(_update_balance(r1.conn, r1.ret.amount, ReverseType(r1.ret.type),
                              r1.ret.customer_id), LAMBDA r2 :
         IF r2.res # "ok" THEN Result(Rollback(r2.conn), "Exception", None)
         ELSE r2))

\* the inverse with its two phones swapped, which the inverse is told apart from
undo_update_customer_phone_swapped(conn, admin_id, customer_id, new_phone, old_phone) ==
    update_customer_phone(conn, new_phone, customer_id, admin_id, FALSE)

undo_update_customer_phone(conn, admin_id, customer_id, new_phone, old_phone) ==
    update_customer_phone(conn, old_phone, customer_id, admin_id, FALSE)

----------------------------------------------------------------------------
(* Pager-view methods *)

\* Python None where a cursor is expected
NoCursor == [is_none |-> TRUE]

\* balance {balance_op} 0
BalanceOp(mode, balance) ==
    IF mode = "due_customers" THEN balance < 0 ELSE balance > 0

\* a cursor comparison without the tie on the balance, which cursor_cmp is
\* told apart from
CursorCmpNoTie(mode, row, cursor) ==
    IF mode = "due_customers" THEN row.balance > cursor.balance
    ELSE row.balance < cursor.balance

\* cursor_cmp: "balance > ? OR (balance = ? AND id > ?)" for the due view,
\* "balance < ? OR (balance = ? AND id > ?)" for the overpaid view
CursorCmp(mode, row, cursor) ==
    \/ IF mode = "due_customers" THEN row.balance > cursor.balance
       ELSE row.balance < cursor.balance
    \/ row.balance = cursor.balance /\ row.id > cursor.id

\* an order that is ascending for both views, which order is told apart from
BalanceOrderAscending(mode, x, y) ==
    \/ x.balance < y.balance
    \/ x.balance = y.balance /\ x.id < y.id

\* order: "balance ASC, id ASC" for the due view, "balance DESC, id ASC" for
\* the overpaid view; x comes before y
BalanceOrder(mode, x, y) ==
    \/ IF mode = "due_customers" THEN x.balance < y.balance
       ELSE x.balance > y.balance
    \/ x.balance = y.balance /\ x.id < y.id

\* ORDER BY {order} LIMIT n
RECURSIVE OrderByBalance(_, _, _)
OrderByBalance(rows, mode, n) ==
    IF rows = {} \/ n <= 0 THEN <<>>
    ELSE LET first == CHOOSE r \in rows :
                          \A o \in rows \ {r} : BalanceOrder(mode, r, o)
         IN <<first>> \o OrderByBalance(rows \ {first}, mode, n - 1)

\* ORDER BY id DESC LIMIT n
RECURSIVE OrderByIdDesc(_, _)
OrderByIdDesc(rows, n) ==
    IF rows = {} \/ n <= 0 THEN <<>>
    ELSE LET first == CHOOSE r \in rows : \A o \in rows : o.id <= r.id
         IN <<first>> \o OrderByIdDesc(rows \ {first}, n - 1)

\* rows[:limit] for a limit that is not negative
Truncate(rows, limit) ==
    SubSeq(rows, 1, IF Len(rows) < limit THEN Len(rows) ELSE limit)

\* a test that misses the extra row, which has_more is told apart from
HasMoreAtLimit(rows, limit) == Len(rows) >= limit

\* has_more = len(rows) > limit, on the limit + 1 rows that were fetched
HasMore(rows, limit) == Len(rows) > limit

\* next_cursor = f"{last["balance"]}, {last["id"]}": a text, not a tuple
FormatCursor(items) ==
    IF items = <<>> THEN NoCursor
    ELSE [text_of |-> [balance |-> items[Len(items)].balance,
                       id |-> items[Len(items)].id]]

\* the id of the first row of the page, which next_cursor is told apart from
FirstId(items) ==
    IF items = <<>> THEN NoCursor ELSE [id |-> items[1].id]

\* next_cursor = rows[-1]['id'] if rows else None
LastId(items) ==
    IF items = <<>> THEN NoCursor ELSE [id |-> items[Len(items)].id]

Page(items, next_cursor, has_more) ==
    [items |-> items, next_cursor |-> next_cursor, has_more |-> has_more]

\* the rest of fetch_balances_page, on the rows the query returned
balances_page_of(rows, limit) ==
    Page(Truncate(rows, limit), FormatCursor(Truncate(rows, limit)),
         HasMore(rows, limit))

fetch_balances_page(conn, mode, admin_id, limit, cursor) ==
    balances_page_of(
        OrderByBalance({c \in conn.live.customers :
                           /\ c.admin_id = admin_id
                           /\ BalanceOp(mode, c.balance)
                           /\ cursor = NoCursor \/ CursorCmp(mode, c, cursor)},
                       mode, limit + 1),
        limit)

\* the rest of the two id-based pagers, on the rows the query returned
id_page_of(rows, limit) ==
    Page(Truncate(rows, limit), LastId(Truncate(rows, limit)),
         HasMore(rows, limit))

fetch_transactions_page(conn, customer_id, admin_id, limit, before_id) ==
    id_page_of(
        OrderByIdDesc({t \in conn.live.transactions :
                          /\ t.customer_id = customer_id
                          /\ t.admin_id = admin_id
                          /\ before_id = NoCursor \/ t.id < before_id.id},
                      limit + 1),
        limit)

fetch_action_logs_page(conn, admin_id, limit, before_id) ==
    id_page_of(
        OrderByIdDesc({l \in conn.live.action_logs :
                          /\ l.admin_id = admin_id
                          /\ before_id = NoCursor \/ l.id < before_id.id},
                      limit + 1),
        limit)

----------------------------------------------------------------------------
(* bot/helpers.py: the session's selected customer (user_data) *)

get_selected_customer(sel) == sel

update_context_fullname(sel, fullname) ==
    IF sel = NoRow THEN sel ELSE [sel EXCEPT !.fullname = fullname]

update_context_balance(sel, balance) ==
    IF sel = NoRow THEN sel ELSE [sel EXCEPT !.balance = balance]

\* selected_customer and selected_customer["customer_id"] == customer_id
Selected(sel, customer_id) ==
    sel # NoRow /\ sel.customer_id = customer_id

----------------------------------------------------------------------------
(* bot/helpers.py: normalization and validation of typed text *)

\* the characters \s, \d and [A-Za-z] stand for
Whitespace == {" "}
Digits == {"0", "1", "2", "3", "4", "5", "6", "7", "8", "9"}
Letters == {UpperLetters[i] : i \in 1..26} \cup {LowerLetters[i] : i \in 1..26}
\* [A-Za-z\-\'] and [\s.-]
NameStart == Letters \cup {"-", "'"}
Separators == Whitespace \cup {".", "-"}

\* one item of a pattern: between min and max characters of a class
Item(chars, min, max) == [chars |-> chars, min |-> min, max |-> max]

\* re.match(pattern, text) for a pattern anchored with ^ and $: the items
\* match the text one after the other and nothing is left
RECURSIVE Matches(_, _)
Matches(text, pattern) ==
    IF pattern = <<>> THEN text = <<>>
    ELSE \E n \in Head(pattern).min..Head(pattern).max :
            /\ n <= Len(text)
            /\ \A i \in 1..n : text[i] \in Head(pattern).chars
            /\ Matches(SubSeq(text, n + 1, Len(text)), Tail(pattern))

\* r"^\+?\(?\d{2,4}\)?[\s.-]?\d{3,4}[\s.-]?\d{3,4}$"
DEFAULT_PHONE_PATTERN ==
    <<Item({"+"}, 0, 1), Item({"("}, 0, 1), Item(Digits, 2, 4),
      Item({")"}, 0, 1), Item(Separators, 0, 1),
      Item(Digits, 3, 4), Item(Separators, 0, 1),
      Item(Digits, 3, 4)>>

\* (\s[A-Za-z]{1,20}){k}
RECURSIVE MiddleNames(_)
MiddleNames(k) ==
    IF k = 0 THEN <<>>
    ELSE <<Item(Whitespace, 1, 1), Item(Letters, 1, 20)>> \o MiddleNames(k - 1)

\* r"^[A-Za-z\-\']{2,20}(\s[A-Za-z]{1,20}){0,3}\s[A-Za-z]{2,20}$", for each
\* number k of middle names
DEFAULT_NAME_PATTERN ==
    [k \in 0..3 |->
        <<Item(NameStart, 2, 20)>> \o MiddleNames(k)
            \o <<Item(Whitespace, 1, 1), Item(Letters, 2, 20)>>]

\* str.strip()
strip(text) ==
    LET kept == {i \in DOMAIN text : text[i] \notin Whitespace}
    IN IF kept = {} THEN <<>>
       ELSE SubSeq(text, CHOOSE i \in kept : \A j \in kept : i <= j,
                   CHOOSE i \in kept : \A j \in kept : j <= i)

\* re.split(r"\s+", text)
RECURSIVE re_split(_)
re_split(text) ==
    LET spaces == {i \in DOMAIN text : text[i] \in Whitespace}
    IN IF spaces = {} THEN <<text>>
       ELSE LET first == CHOOSE i \in spaces : \A j \in spaces : i <= j
                rest == {i \in DOMAIN text : i > first /\ i \notin spaces}
                next == IF rest = {} THEN Len(text) + 1
                        ELSE CHOOSE i \in rest : \A j \in rest : i <= j
            IN <<SubSeq(text, 1, first - 1)>>
                   \o re_split(SubSeq(text, next, Len(text)))

\* ' '.join(parts)
RECURSIVE join(_)
join(parts) ==
    IF parts = <<>> THEN <<>>
    ELSE IF Len(parts) = 1 THEN parts[1]
    ELSE parts[1] \o <<" ">> \o join(Tail(parts))

\* re.sub(r"\D", "", phone)
normalize_phone(phone) == SelectSeq(phone, LAMBDA ch : ch \in Digits)

\* name.strip().lower()
normalize_name(name) ==
    With(strip(name), LAMBDA stripped :
         [i \in DOMAIN stripped |-> FoldChar(stripped[i])])

normalize_fullname(name) ==
    LET name_parts == re_split(normalize_name(name))
        middle == join([i \in 1..(Len(name_parts) - 2) |->
                           normalize_name(name_parts[i + 1])])
    IN IF Len(name_parts) < 2 THEN <<>>
       ELSE normalize_name(name_parts[1]) \o <<" ">>
                \o (IF Len(middle) > 0 THEN middle \o <<" ">> ELSE <<>>)
                \o normalize_name(name_parts[Len(name_parts)])

is_valid_phone(number) ==
    With(strip(number), LAMBDA stripped :
         Matches(stripped, DEFAULT_PHONE_PATTERN))

\* a validation that lets every name through, which the validation is told
\* apart from
is_valid_name_any(name) == TRUE

is_valid_name(name) ==
    With(strip(name), LAMBDA name_split :
         /\ \E k \in 0..3 : Matches(name_split, DEFAULT_NAME_PATTERN[k])
         /\ Len(name_split) > 1)

----------------------------------------------------------------------------
(* bot/customer_service.py: the facade of the customer operations *)

\* customer_service.select_customer
select_customer(conn, customer_id, admin_id, sel) ==
    LET customer == get_customer_by_id(conn, customer_id, admin_id)
    IN IF customer = NoRow THEN sel
       ELSE [customer_id |-> customer.customer_id,
             fullname |-> customer.fullname, balance |-> customer.balance]

\* what a facade operation hands back: the connection, the session's selected
\* customer and the dict {"ok": ..., "error": ...}; error is "InvalidName",
\* "InvalidPhone", the outcome of the database call, or None
ServiceResult(conn, sel, ok, error) ==
    [conn |-> conn, sel |-> sel, ok |-> ok, error |-> error]

\* customer_service.add_customer
service_add_customer(conn, sel, fullname, phone, admin_id, with_logging) ==
    With(normalize_fullname(fullname), LAMBDA name :
    With(normalize_phone(phone), LAMBDA number :
    IF ~is_valid_name(name)
    THEN ServiceResult(conn, sel, FALSE, "InvalidName")
    ELSE IF ~is_valid_phone(number)
    THEN ServiceResult(conn, sel, FALSE, "InvalidPhone")
    ELSE With(add_customer(conn, name, number, admin_id, TRUE, with_logging),
              LAMBDA r :
         IF r.res # "ok" THEN ServiceResult(r.conn, sel, FALSE, r.res)
         ELSE ServiceResult(r.conn,
                            IF with_logging
                            THEN select_customer(r.conn, r.ret, admin_id, sel)
                            ELSE sel,
                            TRUE, None))))

\* customer_service.delete_customer: with_logging is passed as the third
\* positional argument of DatabaseManager.delete_customer, its with_commit
service_delete_customer(conn, sel, customer_id, admin_id, with_logging) ==
    With(delete_customer(conn, customer_id, admin_id, with_logging, TRUE),
         LAMBDA r :
         IF r.res # "ok" THEN ServiceResult(r.conn, sel, FALSE, r.res)
         ELSE ServiceResult(r.conn,
                            IF Selected(sel, customer_id) THEN NoRow ELSE sel,
                            TRUE, None))

\* customer_service.rename_customer
service_rename_customer(conn, sel, new_name, customer_id, admin_id, with_logging) ==
    With(normalize_fullname(new_name), LAMBDA name :
    IF ~is_valid_name(name)
    THEN ServiceResult(conn, sel, FALSE, "InvalidName")
    ELSE With(update_customer_name(conn, name, customer_id, admin_id,
                                   with_logging),
              LAMBDA r :
         IF r.res # "ok" THEN ServiceResult(r.conn, sel, FALSE, r.res)
         ELSE ServiceResult(r.conn,
                            IF Selected(sel, customer_id)
                            THEN update_context_fullname(sel, name)
                            ELSE sel,
                            TRUE, None)))

\* customer_service.change_phone
service_change_phone(conn, sel, new_phone, customer_id, admin_id, with_logging) ==
    With(normalize_phone(new_phone), LAMBDA number :
    IF ~is_valid_phone(number)
    THEN ServiceResult(conn, sel, FALSE, "InvalidPhone")
    ELSE With(update_customer_phone(conn, number, customer_id, admin_id,
                                    with_logging),
              LAMBDA r :
         IF r.res # "ok" THEN ServiceResult(r.conn, sel, FALSE, r.res)
         ELSE ServiceResult(r.conn, sel, TRUE, None)))

----------------------------------------------------------------------------
(* bot/handlers.py: the /addtransaction command *)

\* a check that lets a zero amount through, which the check is told apart from
amount_refused_negative(amount) == amount < 0

\* `if amount <= 0:` the command answers and returns
amount_refused(amount) == amount <= 0

\* what a command leaves: the connection, the user_data, how it ended
\* ("refused" by validation, "failed" on a store error it answered, "ok", or
\* "Exception" when it raised) and the message it answered with
CommandResult(conn, sel, res, reply) ==
    [conn |-> conn, sel |-> sel, res |-> res, reply |-> reply]

\* after db_manager.add_transaction: the except branch, then the refresh
\* selected_customer['balance'] = get_customer_by_id(...)['balance']
add_transaction_reply(r, sel, admin_id) ==
    IF r.res # "ok"
    THEN CommandResult(r.conn, sel, "failed", "something_went_wrong")
    ELSE With(get_customer_by_id(r.conn, sel.customer_id, admin_id),
              LAMBDA customer :
         IF customer = NoRow
         THEN \* None['balance']: TypeError leaves the handler
              CommandResult(r.conn, sel, "Exception", "none")
         ELSE CommandResult(r.conn, [sel EXCEPT !.balance = customer.balance],
                            "ok", "added"))

\* handlers.add_transaction for a message with an amount and a type
handlers_add_transaction(conn, sel, amount, type_, description, admin_id) ==
    IF get_selected_customer(sel) = NoRow
    THEN CommandResult(conn, sel, "refused", "no_selected_customer")
    ELSE IF type_ \notin {"sale", "payment"}
    THEN CommandResult(conn, sel, "refused", "invalid_usage")
    ELSE IF amount_refused(amount)
    THEN CommandResult(conn, sel, "refused", "only_positive_amounts")
    ELSE add_transaction_reply(
             add_transaction(conn, amount, type_, description, sel.customer_id,
                             admin_id, TRUE, TRUE),
             sel, admin_id)

----------------------------------------------------------------------------
(* bot/undo_helpers.py: what a helper hands back, the session included *)

HResult(r, sel) == [conn |-> r.conn, res |-> r.res, sel |-> sel]

\* the parameters of each DatabaseManager.undo_* method (none has a default)
InverseParams(action_type) ==
    CASE action_type = "rename_customer" ->
             {"admin_id", "customer_id", "new_name", "old_name"}
      [] action_type = "change_phone" ->
             {"admin_id", "customer_id", "new_phone", "old_phone"}
      [] action_type = "delete_customer" ->
             {"customer_id", "admin_id", "phone", "fullname", "created_at",
              "balance", "customer_transactions"}
      [] action_type = "add_customer" -> {"customer_id", "admin_id"}
      [] action_type = "add_transaction" -> {"transaction_id"}

\* db.undo_x(**payload) binds when the keys are exactly the parameters
BindsKwargs(payload, action_type) == DOMAIN payload = InverseParams(action_type)

helper_undo_update_customer_name(conn, sel, payload) ==
    IF ~BindsKwargs(payload, "rename_customer")
    THEN HResult(Result(conn, "Exception", None), sel)
    ELSE With(undo_update_customer_name(conn, payload.admin_id,
                  payload.customer_id, payload.new_name, payload.old_name),
              LAMBDA r :
         IF r.res = "ok" /\ Selected(sel, payload.customer_id)
         THEN HResult(r, update_context_fullname(sel, payload.old_name))
         ELSE HResult(r, sel))

helper_undo_update_customer_phone(conn, sel, payload) ==
    IF ~BindsKwargs(payload, "change_phone")
    THEN HResult(Result(conn, "Exception", None), sel)
    ELSE HResult(undo_update_customer_phone(conn, payload.admin_id,
                     payload.customer_id, payload.new_phone, payload.old_phone),
                 sel)

helper_undo_add_customer(conn, sel, payload) ==
    IF ~BindsKwargs(payload, "add_customer")
    THEN HResult(Result(conn, "Exception", None), sel)
    ELSE With(undo_add_customer(conn, payload.customer_id, payload.admin_id),
              LAMBDA r :
         IF r.res = "ok" /\ Selected(sel, payload.customer_id)
         THEN HResult(r, NoRow)
         ELSE HResult(r, sel))

helper_undo_delete_customer(conn, sel, payload) ==
    IF ~BindsKwargs(payload, "delete_customer")
    THEN \* TypeError: missing 1 required positional argument: 'admin_id'
         HResult(Result(conn, "Exception", None), sel)
    ELSE HResult(undo_delete_customer(conn, payload.customer_id,
                     payload.admin_id, payload.phone, payload.fullname,
                     payload.created_at, payload.balance,
                     payload.customer_transactions),
                 sel)

\* update_context(user_data, balance=customer['balance']) after the inverse
helper_undo_add_transaction_context(r, sel, payload) ==
    With(get_customer_by_id(r.conn, payload.customer_id, payload.admin_id),
         LAMBDA customer :
    IF customer = NoRow
    THEN \* None['balance']: TypeError
         HResult(Result(r.conn, "Exception", None), sel)
    ELSE HResult(r, update_context_balance(sel, customer.balance)))

helper_undo_add_transaction(conn, sel, payload) ==
    IF ~({"transaction_id", "customer_id", "admin_id"} \subseteq DOMAIN payload)
    THEN \* KeyError
         HResult(Result(conn, "Exception", None), sel)
    ELSE With(undo_add_transaction(conn, payload.transaction_id), LAMBDA r :
         IF r.res = "ok" /\ Selected(sel, payload.customer_id)
         THEN helper_undo_add_transaction_context(r, sel, payload)
         ELSE HResult(r, sel))

execute_undo(conn, action_type, payload, sel) ==
    LET undo_args == payload.undo_args
    IN CASE action_type = "rename_customer" ->
                helper_undo_update_customer_name(conn, sel, undo_args)
         [] action_type = "change_phone" ->
                helper_undo_update_customer_phone(conn, sel, undo_args)
         [] action_type = "delete_customer" ->
                helper_undo_delete_customer(conn, sel, undo_args)
         [] action_type = "add_customer" ->
                helper_undo_add_customer(conn, sel, undo_args)
         [] action_type = "add_transaction" ->
                helper_undo_add_transaction(conn, sel, undo_args)

----------------------------------------------------------------------------
(* DatabaseManager.undo_last_action_for_admin *)

\* store_fault: the DELETE of the consumed log row raises (the store is
\* locked or full), the failure the method's last except branch handles
\* what undo_last_action_for_admin leaves: the connection, the outcome, the
\* user_data and the log row it fetched
UndoResult(conn, res, sel, log) ==
    [conn |-> conn, res |-> res, sel |-> sel,
     log_id |-> IF log = NoRow THEN 0 ELSE log.id,
     kind |-> IF log = NoRow THEN "none" ELSE log.action_type]

\* DELETE FROM action_logs WHERE id = ?, the rowcount check and the commit
delete_log_row(h, log, store_fault) ==
    LET db == h.conn.live
        rows == {l \in db.action_logs : l.id = log.id}
    IN IF h.res # "ok"
       THEN UndoResult(Rollback(h.conn), h.res, h.sel, log)
       ELSE IF store_fault \/ rows = {}
       THEN UndoResult(Rollback(Dml(h.conn, db)), "Exception", h.sel, log)
       ELSE UndoResult(Commit(Dml(h.conn, [db EXCEPT !.action_logs = @ \ rows])),
                       "ok", h.sel, log)

undo_last_action_for_admin(conn, admin_id, sel, store_fault) ==
    IF conn.in_tx
    THEN \* BEGIN: cannot start a transaction within a transaction
         UndoResult(Rollback(conn), "Exception", sel, NoRow)
    ELSE With(_fetch_last_log(Conn(conn.live, conn.committed, TRUE), admin_id),
              LAMBDA log :
         IF log = NoRow
         THEN UndoResult(Rollback(conn), "AppError", sel, NoRow)
         ELSE delete_log_row(
                  execute_undo(Conn(conn.live, conn.committed, TRUE),
                               log.action_type, json_loads(log.payload), sel),
                  log, store_fault))

----------------------------------------------------------------------------
(* The state machine *)

conn_now == Conn(live, committed, in_tx)

NoName == <<>>

\* the record kept of the last call: the operation and its outcome and, when
\* it succeeded, the admin, the action kind it logged or undid, the id it
\* created or consumed, the customer it named and the durable database it
\* started from; `direct` marks an undo that consumed the log row written by
\* the call right before it.  A refused add_customer keeps its admin and name.
Call(op, admin_id, res, kind, id, customer_id, fullname) ==
    IF res = "ok"
    THEN [op |-> op, res |-> res, admin_id |-> admin_id, kind |-> kind,
          id |-> id, customer_id |-> customer_id, fullname |-> fullname,
          direct |-> /\ op = "undo"
                     /\ last.res = "ok" /\ last.op # "undo"
                     /\ last.admin_id = admin_id /\ last.kind = kind,
          pre |-> committed]
    ELSE [op |-> op, res |-> res,
          admin_id |-> IF op = "add_customer" THEN admin_id ELSE 0,
          kind |-> "none", id |-> 0, customer_id |-> 0,
          fullname |-> IF op = "add_customer" THEN fullname ELSE NoName,
          direct |-> FALSE, pre |-> EmptyDb]

\* the add_transaction coroutines that may be in flight at once: as many as
\* there are admins
Coroutines == Admins

\* a coroutine of add_transaction between two of its calls on the connection:
\* where it is suspended, its arguments, the row its RETURNING statement has
\* produced and the id of the transaction row it inserted; once it is over,
\* how it ended
Idle ==
    [pc |-> "idle", admin_id |-> 0, customer_id |-> 0, amount |-> 0,
     type_ |-> "none", row |-> NoRow, transaction_id |-> 0, res |-> "none"]

NoCall ==
    [op |-> "none", res |-> "none", admin_id |-> 0, kind |-> "none",
     id |-> 0, customer_id |-> 0, fullname |-> NoName, direct |-> FALSE,
     pre |-> EmptyDb]

Init ==
    /\ committed = EmptyDb
    /\ live = EmptyDb
    /\ in_tx = FALSE
    /\ user_data = [a \in SessionAdmins |-> NoRow]
    /\ last = NoCall
    /\ undone = [i \in 1..MaxLogId |-> 0]
    /\ clock = 0
    /\ tasks = [k \in Coroutines |-> Idle]

\* the user_data a call of the admin is given: its session's, or an empty dict
SessionOf(admin_id) ==
    IF admin_id \in SessionAdmins THEN user_data[admin_id] ELSE NoRow

Finish(conn, call) ==
    /\ committed' = conn.committed
    /\ live' = conn.live
    /\ in_tx' = conn.in_tx
    /\ last' = call

\* every command logs its action (with_logging keeps its default, True);
\* the log has room for one more row below the ceiling the model explores
LogRoom == live.seq_action_logs < MaxLogId

AddCustomer(admin_id, fullname, phone) ==
    /\ LogRoom
    /\ \E r \in {add_customer(conn_now, fullname, phone, admin_id, TRUE, TRUE)} :
          /\ r.conn.live.seq_customers <= MaxCustomerId
          /\ Finish(r.conn, Call("add_customer", admin_id, r.res, "add_customer",
                              r.ret, r.ret, fullname))
    /\ UNCHANGED <<user_data, undone, clock, tasks>>

DeleteCustomer(admin_id, customer_id) ==
    /\ LogRoom
    /\ \E r \in {delete_customer(conn_now, customer_id, admin_id, TRUE, TRUE)} :
          Finish(r.conn, Call("delete_customer", admin_id, r.res,
                              "delete_customer", customer_id, customer_id,
                              NoName))
    /\ UNCHANGED <<user_data, undone, clock, tasks>>

UpdateCustomerName(admin_id, customer_id, new_name) ==
    /\ LogRoom
    /\ \E r \in {update_customer_name(conn_now, new_name, customer_id, admin_id, TRUE)} :
          Finish(r.conn, Call("update_customer_name", admin_id, r.res,
                              "rename_customer", customer_id, customer_id,
                              new_name))
    /\ UNCHANGED <<user_data, undone, clock, tasks>>

UpdateCustomerPhone(admin_id, customer_id, new_phone) ==
    /\ LogRoom
    /\ \E r \in {update_customer_phone(conn_now, new_phone, customer_id, admin_id, TRUE)} :
          Finish(r.conn, Call("update_customer_phone", admin_id, r.res,
                              "change_phone", customer_id, customer_id,
                              NoName))
    /\ UNCHANGED <<user_data, undone, clock, tasks>>

AddTransaction(admin_id, customer_id, amount, type_, description) ==
    /\ RowId({t.id : t \in live.transactions}) <= MaxTxId
    /\ LogRoom
    /\ \E r \in {add_transaction(conn_now, amount, type_, description,
                                  customer_id, admin_id, TRUE, TRUE)} :
          Finish(r.conn, Call("add_transaction", admin_id, r.res,
                              "add_transaction",
                              IF r.res = "ok" THEN r.ret.transaction_id ELSE 0,
                              customer_id, NoName))
    /\ UNCHANGED <<user_data, undone, clock, tasks>>

Undo(admin_id, store_fault) ==
    \E u \in {undo_last_action_for_admin(conn_now, admin_id, SessionOf(admin_id),
                                          store_fault)} :
       /\ Finish(u.conn, Call("undo", admin_id, u.res, u.kind, u.log_id, 0,
                            NoName))
       /\ user_data' = [a \in SessionAdmins |->
                           IF a = admin_id THEN u.sel ELSE user_data[a]]
       /\ undone' = IF u.res = "ok"
                     THEN [undone EXCEPT ![u.log_id] = @ + 1]
                     ELSE undone
       /\ UNCHANGED <<clock, tasks>>

SelectCustomer(admin_id, customer_id) ==
    /\ user_data' = [user_data EXCEPT ![admin_id] =
                        select_customer(conn_now, customer_id, admin_id, @)]
    /\ UNCHANGED <<committed, live, in_tx, last, undone, clock, tasks>>

Next ==
    \/ \E a \in Admins, n \in Names, p \in AddPhones : AddCustomer(a, n, p)
    \/ \E a \in Admins, c \in CustomerIdArgs : DeleteCustomer(a, c)
    \/ \E a \in Admins, c \in CustomerIdArgs, n \in Names :
           UpdateCustomerName(a, c, n)
    \/ \E a \in Admins, c \in CustomerIdArgs, p \in NewPhones :
           UpdateCustomerPhone(a, c, p)
    \/ \E a \in Admins, c \in CustomerIdArgs, m \in Amounts, t \in TypeArgs,
          d \in Descriptions : AddTransaction(a, c, m, t, d)
    \/ \E a \in Admins, f \in BOOLEAN : Undo(a, f)

\* the database operations, called one at a time on the one connection
Spec == Init /\ [][Next]_vars

\* the same with the chat sessions choosing their selected customer
SessionNext ==
    \/ Next
    \/ \E a \in SessionAdmins, c \in CustomerIdArgs : SelectCustomer(a, c)

SessionSpec == Init /\ [][SessionNext]_vars

\* the record kept of a facade call: the operation, whether it was to log,
\* whether the text it was given is one the validation refuses, and how it
\* ended
ServiceCall(op, with_logging, refused, r) ==
    [NoCall EXCEPT !.op = op, !.res = IF r.ok THEN "ok" ELSE r.error]
        @@ [with_logging |-> with_logging, refused |-> refused]

\* the call returns: the connection, the session and the record of the call
ServiceFinish(r, admin_id, call) ==
    /\ Finish(r.conn, call)
    /\ user_data' = [a \in SessionAdmins |->
                        IF a = admin_id THEN r.sel ELSE user_data[a]]

ServiceAddCustomer(admin_id, fullname, phone, with_logging) ==
    /\ LogRoom
    /\ \E r \in {service_add_customer(conn_now, SessionOf(admin_id), fullname,
                                       phone, admin_id, with_logging)} :
          /\ r.conn.live.seq_customers <= MaxCustomerId
          /\ ServiceFinish(r, admin_id,
                           ServiceCall("service_add_customer", with_logging,
                                       \/ fullname \in RefusedNames
                                       \/ phone \in RefusedPhones,
                                       r))
    /\ UNCHANGED <<undone, clock, tasks>>

ServiceDeleteCustomer(admin_id, customer_id, with_logging) ==
    /\ LogRoom
    /\ \E r \in {service_delete_customer(conn_now, SessionOf(admin_id),
                                          customer_id, admin_id, with_logging)} :
          ServiceFinish(r, admin_id,
                        ServiceCall("service_delete_customer", with_logging,
                                    FALSE, r))
    /\ UNCHANGED <<undone, clock, tasks>>

ServiceRenameCustomer(admin_id, customer_id, new_name, with_logging) ==
    /\ LogRoom
    /\ \E r \in {service_rename_customer(conn_now, SessionOf(admin_id), new_name,
                                          customer_id, admin_id, with_logging)} :
          ServiceFinish(r, admin_id,
                        ServiceCall("service_rename_customer", with_logging,
                                    new_name \in RefusedNames, r))
    /\ UNCHANGED <<undone, clock, tasks>>

ServiceChangePhone(admin_id, customer_id, new_phone, with_logging) ==
    /\ LogRoom
    /\ \E r \in {service_change_phone(conn_now, SessionOf(admin_id), new_phone,
                                       customer_id, admin_id, with_logging)} :
          ServiceFinish(r, admin_id,
                        ServiceCall("service_change_phone", with_logging,
                                    new_phone \in RefusedPhones, r))
    /\ UNCHANGED <<undone, clock, tasks>>

\* a store in which an admin with a chat session has added a customer through
\* the facade, which selected it, and recorded a sale with /addtransaction
ServiceInit ==
    /\ clock = 0
    /\ \E a \in SessionAdmins :
          \E r \in {service_add_customer(Conn(EmptyDb, EmptyDb, FALSE), NoRow,
                                         <<"r", "o", " ", "o", "k">>,
                                         <<"5", "5", "5", "5", "5", "5", "5", "5">>,
                                         a, TRUE)} :
             \E h \in {handlers_add_transaction(r.conn, r.sel, 1, "sale", "d",
                                                a)} :
                /\ committed = h.conn.committed
                /\ user_data = [b \in SessionAdmins |->
                                   IF b = a THEN h.sel ELSE NoRow]
    /\ live = committed
    /\ in_tx = FALSE
    /\ last = NoCall
    /\ undone = [i \in 1..MaxLogId |-> 0]
    /\ tasks = [k \in Coroutines |-> Idle]

\* the facade called with typed text, with and without logging
ServiceNext ==
    \/ \E a \in Admins, n \in TypedNames, p \in TypedPhones, w \in BOOLEAN :
           ServiceAddCustomer(a, n, p, w)
    \/ \E a \in Admins, c \in CustomerIdArgs, w \in BOOLEAN :
           ServiceDeleteCustomer(a, c, w)
    \/ \E a \in Admins, c \in CustomerIdArgs, n \in TypedNames, w \in BOOLEAN :
           ServiceRenameCustomer(a, c, n, w)
    \/ \E a \in Admins, c \in CustomerIdArgs, p \in TypedPhones, w \in BOOLEAN :
           ServiceChangePhone(a, c, p, w)

ServiceSpec == ServiceInit /\ [][ServiceNext]_vars

\* one admin who only adds customers, adds transactions and undoes
LedgerNext ==
    \/ \E n \in Names, p \in AddPhones : AddCustomer(1, n, p)
    \/ \E c \in CustomerIdArgs, m \in LedgerAmounts, t \in TransactionType,
          d \in Descriptions : AddTransaction(1, c, m, t, d)
    \/ Undo(1, FALSE)

LedgerSpec == Init /\ [][LedgerNext]_vars

\* the admins add customers with or without a phone, change phones, record
\* sales and undo
PhoneNext ==
    \/ \E a \in Admins, p \in PhoneArgs : AddCustomer(a, PagerNames[a], p)
    \/ \E a \in Admins, c \in CustomerIdArgs, p \in PhoneArgs :
           UpdateCustomerPhone(a, c, p)
    \/ \E a \in Admins, c \in CustomerIdArgs, d \in Descriptions :
           AddTransaction(a, c, 1, "sale", d)
    \/ \E a \in Admins, f \in BOOLEAN : Undo(a, f)

PhoneSpec == Init /\ [][PhoneNext]_vars

\* the stores a run of operations and undos starts from: an empty one, one in
\* which the other admin has added a customer, and one in which the admin has
\* added a customer and recorded a sale
StartStores ==
    {EmptyDb,
     add_customer(Conn(EmptyDb, EmptyDb, FALSE), PagerNames[3], None, 2, TRUE,
                  TRUE).conn.committed,
     add_transaction(add_customer(Conn(EmptyDb, EmptyDb, FALSE), PagerNames[3],
                                  None, 1, TRUE, TRUE).conn,
                     1, "sale", "d", 1, 1, TRUE, TRUE).conn.committed}

\* the record kept of a run: the store it started from, the kinds of the
\* operations done and not yet undone, oldest first, whether the undos have
\* begun, and for an undo the kind that was on top
RunInit ==
    /\ clock = 0
    /\ committed \in StartStores
    /\ live = committed
    /\ in_tx = FALSE
    /\ user_data = [a \in SessionAdmins |-> NoRow]
    /\ last = NoCall @@ [start |-> committed, stack |-> <<>>,
                         undoing |-> FALSE, top |-> "none"]
    /\ undone = [i \in 1..MaxLogId |-> 0]
    /\ tasks = [k \in Coroutines |-> Idle]

\* one more successful logged operation of the run, before its undos begin
Done(r, kind) ==
    /\ ~last.undoing
    /\ LogRoom
    /\ r.res = "ok"
    /\ Finish(r.conn, [last EXCEPT !.op = kind, !.res = "ok", !.kind = kind,
                                   !.stack = Append(@, kind)])
    /\ UNCHANGED <<user_data, undone, clock, tasks>>

RunAddCustomer(admin_id, fullname, phone) ==
    \E r \in {add_customer(conn_now, fullname, phone, admin_id, TRUE, TRUE)} :
       /\ r.conn.live.seq_customers <= MaxCustomerId
       /\ Done(r, "add_customer")

RunDeleteCustomer(admin_id, customer_id) ==
    \E r \in {delete_customer(conn_now, customer_id, admin_id, TRUE, TRUE)} :
       Done(r, "delete_customer")

RunUpdateCustomerName(admin_id, customer_id, new_name) ==
    \E r \in {update_customer_name(conn_now, new_name, customer_id, admin_id,
                                    TRUE)} :
       Done(r, "rename_customer")

RunUpdateCustomerPhone(admin_id, customer_id, new_phone) ==
    \E r \in {update_customer_phone(conn_now, new_phone, customer_id, admin_id,
                                     TRUE)} :
       Done(r, "change_phone")

RunAddTransaction(admin_id, customer_id, amount, type_) ==
    /\ RowId({t.id : t \in live.transactions}) <= MaxTxId
    /\ \E r \in {add_transaction(conn_now, amount, type_, "d", customer_id,
                                  admin_id, TRUE, TRUE)} :
          Done(r, "add_transaction")

\* the next undo of the run, as long as none has failed
RunUndo(admin_id) ==
    /\ last.stack # <<>>
    /\ last.res = "ok"
    /\ \E u \in {undo_last_action_for_admin(conn_now, admin_id,
                                            SessionOf(admin_id), FALSE)} :
          /\ Finish(u.conn,
                    [last EXCEPT !.op = "undo", !.res = u.res, !.kind = u.kind,
                                 !.undoing = TRUE,
                                 !.top = last.stack[Len(last.stack)],
                                 !.stack = IF u.res = "ok"
                                           THEN SubSeq(@, 1, Len(@) - 1)
                                           ELSE @])
          /\ user_data' = [a \in SessionAdmins |->
                              IF a = admin_id THEN u.sel ELSE user_data[a]]
          /\ undone' = IF u.res = "ok"
                        THEN [undone EXCEPT ![u.log_id] = @ + 1]
                        ELSE undone
    /\ UNCHANGED <<clock, tasks>>

\* one admin does some operations that succeed, then undoes them one by one
RunNext ==
    \/ \E a \in SessionAdmins, n \in Names, p \in AddPhones :
           RunAddCustomer(a, n, p)
    \/ \E a \in SessionAdmins, c \in CustomerIdArgs : RunDeleteCustomer(a, c)
    \/ \E a \in SessionAdmins, c \in CustomerIdArgs, n \in Names :
           RunUpdateCustomerName(a, c, n)
    \/ \E a \in SessionAdmins, c \in CustomerIdArgs, p \in NewPhones :
           RunUpdateCustomerPhone(a, c, p)
    \/ \E a \in SessionAdmins, c \in CustomerIdArgs, m \in Amounts,
          t \in TransactionType : RunAddTransaction(a, c, m, t)
    \/ \E a \in SessionAdmins : RunUndo(a)

RunSpec == RunInit /\ [][RunNext]_vars

\* a call of a method that takes with_commit, by a caller that chooses it;
\* the record of the call keeps the choice
Deferrable(r, call, with_commit) ==
    /\ LogRoom
    /\ Finish(r.conn, call @@ [with_commit |-> with_commit])
    /\ UNCHANGED <<user_data, undone, clock, tasks>>

DeferAddCustomer(admin_id, fullname, phone, with_commit) ==
    \E r \in {add_customer(conn_now, fullname, phone, admin_id, with_commit,
                           TRUE)} :
       /\ r.conn.live.seq_customers <= MaxCustomerId
       /\ Deferrable(r, Call("add_customer", admin_id, r.res, "add_customer",
                             r.ret, r.ret, fullname), with_commit)

DeferDeleteCustomer(admin_id, customer_id, with_commit) ==
    \E r \in {delete_customer(conn_now, customer_id, admin_id, with_commit,
                              TRUE)} :
       Deferrable(r, Call("delete_customer", admin_id, r.res, "delete_customer",
                          0, customer_id, NoName), with_commit)

DeferAddTransaction(admin_id, customer_id, amount, type_, with_commit) ==
    /\ RowId({t.id : t \in live.transactions}) <= MaxTxId
    /\ \E r \in {add_transaction(conn_now, amount, type_, "d", customer_id,
                                 admin_id, with_commit, TRUE)} :
          Deferrable(r, Call("add_transaction", admin_id, r.res,
                             "add_transaction", 0, customer_id, NoName),
                     with_commit)

\* the caller's own conn.commit() after calls made with with_commit=False
CallerCommit ==
    /\ in_tx
    /\ Finish(Commit(conn_now),
              Call("commit", 0, "ok", "none", 0, 0, NoName)
                 @@ [with_commit |-> TRUE])
    /\ UNCHANGED <<user_data, undone, clock, tasks>>

DeferredInit ==
    /\ committed = EmptyDb
    /\ live = EmptyDb
    /\ in_tx = FALSE
    /\ user_data = [a \in SessionAdmins |-> NoRow]
    /\ last = NoCall @@ [with_commit |-> TRUE]
    /\ undone = [i \in 1..MaxLogId |-> 0]
    /\ clock = 0
    /\ tasks = [k \in Coroutines |-> Idle]

\* callers that compose the database methods and commit themselves
DeferredNext ==
    \/ \E a \in Admins, n \in Names, p \in AddPhones, w \in BOOLEAN :
           DeferAddCustomer(a, n, p, w)
    \/ \E a \in Admins, c \in CustomerIdArgs, w \in BOOLEAN :
           DeferDeleteCustomer(a, c, w)
    \/ \E a \in Admins, c \in CustomerIdArgs, m \in Amounts,
          t \in TransactionType, w \in BOOLEAN :
           DeferAddTransaction(a, c, m, t, w)
    \/ CallerCommit

DeferredSpec == DeferredInit /\ [][DeferredNext]_vars

\* the record kept of a command: how it ended and what it answered
CommandCall(op, admin_id, res, reply) ==
    [NoCall EXCEPT !.op = op, !.res = res, !.admin_id = admin_id]
        @@ [reply |-> reply]

AddTransactionCommand(admin_id, amount, type_, description) ==
    /\ \E h \in {handlers_add_transaction(conn_now, SessionOf(admin_id), amount,
                                           type_, description, admin_id)} :
          /\ h.conn.live.seq_action_logs <= MaxLogId
          /\ \A t \in h.conn.live.transactions : t.id <= MaxTxId
          /\ Finish(h.conn, CommandCall("add_transaction_command", admin_id,
                                        h.res, h.reply))
          /\ user_data' = [user_data EXCEPT ![admin_id] = h.sel]
    /\ UNCHANGED <<undone, clock, tasks>>

\* the admins with a chat session: they add, select and delete customers,
\* type /addtransaction and undo
CommandNext ==
    \/ \E a \in SessionAdmins, n \in Names, p \in AddPhones : AddCustomer(a, n, p)
    \/ \E a \in SessionAdmins, c \in CustomerIdArgs : SelectCustomer(a, c)
    \/ \E a \in SessionAdmins, c \in CustomerIdArgs : DeleteCustomer(a, c)
    \/ \E a \in SessionAdmins, m \in RawAmounts, t \in TypeArgs,
          d \in Descriptions : AddTransactionCommand(a, m, t, d)
    \/ \E a \in SessionAdmins : Undo(a, FALSE)

CommandSpec == Init /\ [][CommandNext]_vars

\* a chat: the facade called with text the validation lets through and
\* with logging on, /addtransaction, selections and undo
ChatNext ==
    \/ \E a \in Admins, n \in TypedNames \ RefusedNames,
          p \in TypedPhones \ RefusedPhones : ServiceAddCustomer(a, n, p, TRUE)
    \/ \E a \in Admins, c \in CustomerIdArgs : ServiceDeleteCustomer(a, c, TRUE)
    \/ \E a \in Admins, c \in CustomerIdArgs, n \in TypedNames \ RefusedNames :
           ServiceRenameCustomer(a, c, n, TRUE)
    \/ \E a \in SessionAdmins, m \in Amounts, t \in TransactionType,
          d \in Descriptions : AddTransactionCommand(a, m, t, d)
    \/ \E a \in SessionAdmins, c \in CustomerIdArgs : SelectCustomer(a, c)
    \/ \E a \in Admins, f \in BOOLEAN : Undo(a, f)

ChatSpec == Init /\ [][ChatNext]_vars

\* time passes between two calls
Advance(ticks) ==
    /\ clock + ticks <= MaxClock
    /\ clock' = clock + ticks
    /\ UNCHANGED <<committed, live, in_tx, user_data, last, undone, tasks>>

\* the retention sweep; `delay` ticks pass between its two statements
ClearOldLogs(delay) ==
    /\ clock + delay <= MaxClock
    /\ \E r \in {clear_old_logs(conn_now, clock, clock + delay)} :
          Finish(r.conn, Call("clear_old_logs", 0, r.res, "none", 0, 0, NoName))
    /\ clock' = clock + delay
    /\ UNCHANGED <<user_data, undone, tasks>>

\* one admin logs actions while time passes and the sweep runs
RetentionNext ==
    \/ \E n \in Names, p \in AddPhones : AddCustomer(1, n, p)
    \/ \E c \in CustomerIdArgs, p \in NewPhones : UpdateCustomerPhone(1, c, p)
    \/ \E ticks \in {1, Retention} : Advance(ticks)
    \/ \E delay \in 0..MaxSweepDelay : ClearOldLogs(delay)

RetentionSpec == Init /\ [][RetentionNext]_vars

\* the record kept of a pager call: the page it returned, the cursor it was
\* given and the items of all the pages since the view was opened
PageCall(op, admin_id, customer_id, mode, limit, cursor, seen, page) ==
    [NoCall EXCEPT !.op = op, !.res = "ok", !.admin_id = admin_id,
                   !.customer_id = customer_id]
        @@ [mode |-> mode, limit |-> limit, cursor |-> cursor,
            items |-> page.items, has_more |-> page.has_more,
            next_cursor |-> page.next_cursor, seen |-> seen \o page.items]

\* the previous call returned a page of the same view, with an item to go on from
Continues(op, admin_id, customer_id, mode, limit) ==
    /\ last.op = op /\ last.admin_id = admin_id
    /\ last.customer_id = customer_id /\ last.mode = mode
    /\ last.limit = limit /\ last.items # <<>>

\* a page of a balance view: the first one, or the one after the last page,
\* from the (balance, id) of its last item
FetchBalancesPage(admin_id, mode, limit, continued) ==
    /\ continued => Continues("fetch_balances_page", admin_id, 0, mode, limit)
    /\ \E cursor \in {IF continued
                      THEN [balance |-> last.items[Len(last.items)].balance,
                            id |-> last.items[Len(last.items)].id]
                      ELSE NoCursor} :
          last' = PageCall("fetch_balances_page", admin_id, 0, mode, limit, cursor,
                           IF continued THEN last.seen ELSE <<>>,
                           fetch_balances_page(conn_now, mode, admin_id, limit,
                                               cursor))
    /\ UNCHANGED <<committed, live, in_tx, user_data, undone, clock, tasks>>

\* a page of a customer's transactions, from the next_cursor of the last page
FetchTransactionsPage(admin_id, customer_id, limit, continued) ==
    /\ continued => Continues("fetch_transactions_page", admin_id, customer_id,
                              "none", limit)
    /\ \E before_id \in {IF continued THEN last.next_cursor ELSE NoCursor} :
          last' = PageCall("fetch_transactions_page", admin_id, customer_id,
                           "none", limit, before_id,
                           IF continued THEN last.seen ELSE <<>>,
                           fetch_transactions_page(conn_now, customer_id,
                                                   admin_id, limit, before_id))
    /\ UNCHANGED <<committed, live, in_tx, user_data, undone, clock, tasks>>

\* a page of an admin's action logs, from the next_cursor of the last page
FetchActionLogsPage(admin_id, limit, continued) ==
    /\ continued => Continues("fetch_action_logs_page", admin_id, 0, "none", limit)
    /\ \E before_id \in {IF continued THEN last.next_cursor ELSE NoCursor} :
          last' = PageCall("fetch_action_logs_page", admin_id, 0, "none", limit,
                           before_id, IF continued THEN last.seen ELSE <<>>,
                           fetch_action_logs_page(conn_now, admin_id, limit,
                                                  before_id))
    /\ UNCHANGED <<committed, live, in_tx, user_data, undone, clock, tasks>>

\* what was done for the customers of a store before its views are read: for
\* each name an admin who added it and the kinds of the transactions recorded
Seeds == [1..Len(PagerNames) -> [admin_id : Admins, types : Ledgers]]

\* the connection after add_transaction of one unit for each kind in turn
RECURSIVE SeedTransactions(_, _, _, _)
SeedTransactions(conn, types, customer_id, admin_id) ==
    IF types = <<>> THEN conn
    ELSE SeedTransactions(
             add_transaction(conn, 1, Head(types), "d", customer_id, admin_id,
                             TRUE, TRUE).conn,
             Tail(types), customer_id, admin_id)

\* the connection after add_customer and the transactions of the customers
\* i, i + 1, ... of the seed
RECURSIVE SeedCustomers(_, _, _)
SeedCustomers(conn, i, seed) ==
    IF i > Len(PagerNames) THEN conn
    ELSE With(add_customer(conn, PagerNames[i], None, seed[i].admin_id, TRUE,
                           TRUE),
              LAMBDA r :
         SeedCustomers(SeedTransactions(r.conn, seed[i].types, r.ret,
                                        seed[i].admin_id),
                       i + 1, seed))

\* a store in which customers were added and transactions recorded
PagerInit ==
    /\ clock = 0
    /\ \E seed \in Seeds :
          committed = SeedCustomers(Conn(EmptyDb, EmptyDb, FALSE), 1, seed).committed
    /\ live = committed
    /\ in_tx = FALSE
    /\ user_data = [a \in SessionAdmins |-> NoRow]
    /\ last = NoCall
    /\ undone = [i \in 1..MaxLogId |-> 0]
    /\ tasks = [k \in Coroutines |-> Idle]

\* the pager views read, page after page, while the store does not change
PagerNext ==
    \/ \E a \in Admins, v \in BalanceViews, n \in Limits, k \in BOOLEAN :
           FetchBalancesPage(a, v, n, k)
    \/ \E a \in Admins, c \in 1..Len(PagerNames), n \in Limits, k \in BOOLEAN :
           FetchTransactionsPage(a, c, n, k)
    \/ \E a \in Admins, n \in Limits, k \in BOOLEAN : FetchActionLogsPage(a, n, k)

PagerSpec == PagerInit /\ [][PagerNext]_vars

----------------------------------------------------------------------------
(* add_transaction coroutines, scheduled call by call *)

\* a RETURNING statement of the connection has produced a row that was not
\* fetched yet; sqlite refuses COMMIT while there is one
StatementInProgress(k) ==
    /\ tasks[k].pc \in {"update_returning", "insert_returning"}
    /\ tasks[k].row # NoRow

\* the coroutine k goes on to its next awaited call
Suspend(k, pc, row, transaction_id) ==
    tasks' = [tasks EXCEPT ![k] = [@ EXCEPT !.pc = pc, !.row = row,
                                            !.transaction_id = transaction_id]]

\* the call returns or raises: the coroutine is over
Return(k, conn, res) ==
    /\ Finish(conn, Call("add_transaction", tasks[k].admin_id, res,
                         "add_transaction", tasks[k].transaction_id,
                         tasks[k].customer_id, NoName))
    /\ tasks' = [tasks EXCEPT ![k] =
                    [@ EXCEPT !.pc = "idle", !.row = NoRow, !.res = res]]

\* the balances are within the range the model explores
BalanceRoom == \A c \in live.customers : c.balance \in -MaxTxId..MaxTxId

\* add_transaction is called by the admin for the customer it has selected
\* (one of its own, or one that is gone) and runs as the coroutine k;
\* _update_balance executes its UPDATE
ExecuteUpdateBalance(k, admin_id, customer_id, amount, type_) ==
    /\ tasks[k].pc = "idle"
    /\ \A c \in live.customers : c.id = customer_id => c.admin_id = admin_id
    /\ \E r \in {_update_balance(conn_now, amount, type_, customer_id)} :
          /\ Finish(r.conn, last)
          /\ tasks' = [tasks EXCEPT ![k] =
                 [pc |-> "update_returning", admin_id |-> admin_id,
                  customer_id |-> customer_id,
                  amount |-> amount, type_ |-> type_,
                  row |-> IF r.res = "ok" THEN r.ret ELSE NoRow,
                  transaction_id |-> 0, res |-> "none"]]
    /\ UNCHANGED <<user_data, undone, clock>>

\* cursor.fetchone() and dict(customer_row) of _update_balance
FetchUpdatedBalance(k) ==
    /\ tasks[k].pc = "update_returning"
    /\ IF tasks[k].row = NoRow
       THEN \* dict(None): TypeError, rollback, generic error
            Return(k, Rollback(conn_now), "Exception")
       ELSE /\ Suspend(k, "updated", NoRow, 0)
            /\ UNCHANGED <<committed, live, in_tx, last>>
    /\ UNCHANGED <<user_data, undone, clock>>

\* INSERT INTO transactions ... RETURNING id is executed
ExecuteInsertTransaction(k) ==
    /\ tasks[k].pc = "updated"
    /\ RowId({t.id : t \in live.transactions}) <= MaxTxId
    /\ \E r \in {add_transaction_row(conn_now, tasks[k].amount, tasks[k].type_,
                                      "d", tasks[k].customer_id,
                                      tasks[k].admin_id, FALSE, FALSE)} :
          /\ Finish(r.conn, last)
          /\ Suspend(k, "insert_returning", [id |-> r.ret.transaction_id],
                     r.ret.transaction_id)
    /\ UNCHANGED <<user_data, undone, clock>>

\* (await cur.fetchone())['id']
FetchTransactionId(k) ==
    /\ tasks[k].pc = "insert_returning"
    /\ Suspend(k, "inserted", NoRow, tasks[k].transaction_id)
    /\ UNCHANGED <<committed, live, in_tx, user_data, last, undone, clock>>

\* add_action_log(..., with_commit=False)
LogTransaction(k) ==
    /\ tasks[k].pc = "inserted"
    /\ LogRoom
    /\ Finish(LogIf(TRUE, conn_now, "add_transaction", tasks[k].customer_id,
                    tasks[k].admin_id,
                    [customer_id |-> tasks[k].customer_id,
                     admin_id |-> tasks[k].admin_id,
                     transaction_id |-> tasks[k].transaction_id]),
              last)
    /\ Suspend(k, "logged", NoRow, tasks[k].transaction_id)
    /\ UNCHANGED <<user_data, undone, clock>>

\* conn.commit(); refused (OperationalError, then rollback and the generic
\* error) while a statement of another coroutine is in progress
CommitTransaction(k) ==
    /\ tasks[k].pc = "logged"
    /\ IF \E b \in Coroutines \ {k} : StatementInProgress(b)
       THEN Return(k, Rollback(conn_now), "Exception")
       ELSE Return(k, Commit(conn_now), "ok")
    /\ UNCHANGED <<user_data, undone, clock>>

\* a store in which each admin has added one customer
InterleaveInit ==
    /\ clock = 0
    /\ committed =
          add_customer(add_customer(Conn(EmptyDb, EmptyDb, FALSE),
                                    PagerNames[1], None, 1, TRUE, TRUE).conn,
                       PagerNames[2], None, 2, TRUE, TRUE).conn.committed
    /\ live = committed
    /\ in_tx = FALSE
    /\ user_data = [a \in SessionAdmins |-> NoRow]
    /\ last = NoCall
    /\ undone = [i \in 1..MaxLogId |-> 0]
    /\ tasks = [k \in Coroutines |-> Idle]

\* the admin starts its coroutine: a sale of one unit
CallSale(a, customer_id) ==
    /\ BalanceRoom
    /\ ExecuteUpdateBalance(a, a, customer_id, 1, "sale")

\* the coroutines of the admins (one each) take turns at their awaited calls;
\* each call records a sale of one unit
InterleaveNext ==
    \/ \E a \in Admins, c \in 1..(MaxCustomerId + 1) : CallSale(a, c)
    \/ \E a \in Admins : FetchUpdatedBalance(a)
    \/ \E a \in Admins : ExecuteInsertTransaction(a)
    \/ \E a \in Admins : FetchTransactionId(a)
    \/ \E a \in Admins : LogTransaction(a)
    \/ \E a \in Admins : CommitTransaction(a)

InterleaveSpec == InterleaveInit /\ [][InterleaveNext]_vars

\* a store in which admin 1 has added one customer
SameCustomerInit ==
    /\ clock = 0
    /\ committed = add_customer(Conn(EmptyDb, EmptyDb, FALSE), PagerNames[1],
                                None, 1, TRUE, TRUE).conn.committed
    /\ live = committed
    /\ in_tx = FALSE
    /\ user_data = [a \in SessionAdmins |-> NoRow]
    /\ last = NoCall
    /\ undone = [i \in 1..MaxLogId |-> 0]
    /\ tasks = [k \in Coroutines |-> Idle]

\* the coroutine k is started, once, by admin 1 for its customer
CallOnce(k, amount, type_) ==
    /\ tasks[k].res = "none"
    /\ ExecuteUpdateBalance(k, 1, 1, amount, type_)

\* two add_transaction calls of admin 1 for its customer, one per coroutine,
\* take turns at their awaited calls
SameCustomerNext ==
    \/ \E k \in Coroutines, amount \in LedgerAmounts, t \in TransactionType :
           CallOnce(k, amount, t)
    \/ \E k \in Coroutines : FetchUpdatedBalance(k)
    \/ \E k \in Coroutines : ExecuteInsertTransaction(k)
    \/ \E k \in Coroutines : FetchTransactionId(k)
    \/ \E k \in Coroutines : LogTransaction(k)
    \/ \E k \in Coroutines : CommitTransaction(k)

SameCustomerSpec == SameCustomerInit /\ [][SameCustomerNext]_vars

----------------------------------------------------------------------------
(* Properties of the ledger and its undo log *)

\* the signed sum the ledger defines: payments count up, sales count down;
\* each sum is taken exactly and stored as the nearest REAL
LedgerSum(db, customer_id) ==
    RealRound(
        RealRound(SumAmounts({t \in db.transactions :
                     t.customer_id = customer_id /\ t.type = "payment"}))
        - RealRound(SumAmounts({t \in db.transactions :
                       t.customer_id = customer_id /\ t.type = "sale"})))

\* two names that differ at most in the case of their letters
EqualIgnoringCase(x, y) ==
    /\ Len(x) = Len(y)
    /\ \A i \in 1..Len(x) :
          \/ x[i] = y[i]
          \/ \E k \in 1..Len(UpperLetters) :
                {x[i], y[i]} = {UpperLetters[k], LowerLetters[k]}

\* the previous call was this admin's successful call of the operation
JustDid(op, admin_id) ==
    last.op = op /\ last.res = "ok" /\ last.admin_id = admin_id

\* the step is one call of a logged mutation
MutationStep ==
    \/ \E a \in Admins, n \in Names, p \in AddPhones : AddCustomer(a, n, p)
    \/ \E a \in Admins, c \in CustomerIdArgs : DeleteCustomer(a, c)
    \/ \E a \in Admins, c \in CustomerIdArgs, n \in Names :
           UpdateCustomerName(a, c, n)
    \/ \E a \in Admins, c \in CustomerIdArgs, p \in NewPhones :
           UpdateCustomerPhone(a, c, p)
    \/ \E a \in Admins, c \in CustomerIdArgs, m \in Amounts, t \in TypeArgs,
          d \in Descriptions : AddTransaction(a, c, m, t, d)

\* C1: in every durable state reached by add_transaction and undo calls, each
\* customer's balance is the sum of the amounts of its persisted payments
\* minus the sum of the amounts of its persisted sales.
C1_BalanceIdentity ==
    \A c \in committed.customers : c.balance = LedgerSum(committed, c.id)

\* C2: a successful add_transaction followed at once by the same admin's undo
\* (all of whose statements run) leaves the customers, so the balance, as
\* they were before the add_transaction and no transaction row with the id
\* it returned.
C2_UndoAddTransactionRoundTrip ==
    [][\A a \in Admins :
          (JustDid("add_transaction", a) /\ Undo(a, FALSE))
          => /\ last'.res = "ok"
             /\ last'.kind = "add_transaction"
             /\ committed'.customers = last.pre.customers
             /\ \A t \in committed'.transactions : t.id # last.id
             /\ committed'.transactions = last.pre.transactions]_vars

\* C3: a successful delete_customer of a customer with at least one
\* transaction, followed at once by the same admin's undo, restores the
\* customer row and all of its transactions as they were before the delete.
C3_DeleteRestoreRoundTrip ==
    [][\A a \in Admins :
          (/\ JustDid("delete_customer", a)
           /\ \E t \in last.pre.transactions : t.customer_id = last.customer_id
           /\ Undo(a, FALSE))
          => /\ last'.res = "ok"
             /\ committed'.customers = last.pre.customers
             /\ committed'.transactions = last.pre.transactions]_vars

\* C4: a successful rename followed at once by the same admin's undo (all of
\* whose statements run) leaves the customer with its former name and with
\* balance, phone, id and transactions unchanged.
C4_RenameRoundTrip ==
    [][\A a \in Admins :
          (JustDid("update_customer_name", a) /\ Undo(a, FALSE))
          => /\ last'.res = "ok"
             /\ last'.kind = "rename_customer"
             /\ committed'.customers = last.pre.customers
             /\ committed'.transactions = last.pre.transactions]_vars

\* a rename to a different name has just been undone by the call after it
C4_Witness ==
    /\ last.op = "undo" /\ last.res = "ok" /\ last.direct
    /\ last.kind = "rename_customer"
    /\ \E c \in committed.customers : \E b \in last.pre.customers :
          b.id = c.id /\ b.fullname # c.fullname

\* C5: add_customer with a name that equals, ignoring letter case, the name
\* of a customer of the same admin raises AppError; the durable customers and
\* log rows are what they were, the call leaves nothing pending, and when no
\* earlier call had left a transaction open the connection's view of the
\* tables is unchanged too.
C5_DuplicateRejection ==
    [][\A a \in Admins, n \in Names, p \in AddPhones :
          (/\ \E c \in live.customers :
                 c.admin_id = a /\ EqualIgnoringCase(c.fullname, n)
           /\ AddCustomer(a, n, p))
          => /\ last'.res = "AppError"
             /\ committed' = committed
             /\ live' = committed'
             /\ ~in_tx'
             /\ ~in_tx => live' = live]_vars

\* an add_customer was refused for a name that differs only in letter case
\* from the name of a customer of the same admin
C5_Witness ==
    /\ last.op = "add_customer" /\ last.res = "AppError"
    /\ \E c \in committed.customers :
          /\ c.admin_id = last.admin_id
          /\ c.fullname # last.fullname
          /\ EqualIgnoringCase(c.fullname, last.fullname)

\* C6: the log row a successful undo consumed is in no later state of the
\* log, live or durable, and no log row is consumed by two undos.
C6_NoDoubleUndo ==
    \A i \in 1..MaxLogId :
       /\ undone[i] <= 1
       /\ undone[i] > 0
          => \A l \in live.action_logs \cup committed.action_logs : l.id # i

\* an undo has succeeded, a later action was logged and a later undo has
\* succeeded after it
C6_Witness ==
    /\ last.op = "undo" /\ last.res = "ok"
    /\ \E i \in 1..MaxLogId : i < last.id /\ undone[i] > 0

\* C7: an undo for an admin with no log row raises AppError and changes
\* nothing.
C7_NothingToUndo ==
    [][\A a \in Admins, f \in BOOLEAN :
          (/\ \A l \in live.action_logs : l.admin_id # a
           /\ Undo(a, f))
          => /\ last'.res = "AppError"
             /\ committed' = committed]_vars

\* C8: an undo that fetched a log row and then fails, in the inverse or in
\* the removal of the log row, leaves the durable state as it was and the
\* log row in the log.
C8_UndoAllOrNothing ==
    [][\A a \in Admins, f \in BOOLEAN :
          (/\ ~in_tx
           /\ \E l \in live.action_logs : l.admin_id = a
           /\ Undo(a, f)
           /\ last'.res # "ok")
          => /\ committed' = committed
             /\ _fetch_last_log(conn_now, a) \in live'.action_logs]_vars

\* C9: a successful logged mutation commits exactly one new log row, of its
\* admin, its action type and its customer, and no other step changes the
\* durable state.
C9_OneLogRowPerMutation ==
    [][/\ (MutationStep /\ last'.res = "ok")
          => \E l \in committed'.action_logs :
                /\ committed'.action_logs = committed.action_logs \cup {l}
                /\ l \notin committed.action_logs
                /\ l.admin_id = last'.admin_id
                /\ l.action_type = last'.kind
                /\ l.customer_id = last'.customer_id
       /\ (MutationStep /\ last'.res # "ok") => committed' = committed]_vars

\* C10: a logged mutation that fails has rolled back the transaction it
\* opened: nothing is pending on the connection when the error is raised.
C10_FailedMutationLeavesNoTrace ==
    [][(~in_tx /\ MutationStep /\ last'.res # "ok")
          => /\ ~in_tx'
             /\ live' = committed'
             /\ committed' = committed]_vars

\* C11: a successful add_transaction of a payment of amount a moves the
\* customer's durable balance by exactly +a, of a sale by exactly -a, and
\* leaves every other customer's balance as it was.
C11_SignConvention ==
    [][\A a \in Admins, c \in CustomerIdArgs, m \in LedgerAmounts,
         t \in TransactionType, d \in Descriptions :
          (AddTransaction(a, c, m, t, d) /\ last'.res = "ok")
          => \A k \in committed'.customers :
                \E b \in committed.customers :
                   /\ b.id = k.id
                   /\ k.balance =
                         b.balance + (IF k.id # c THEN 0
                                      ELSE IF t = "payment" THEN m ELSE -m)]_vars

C13_NameUniqueness ==
    [][/\ \A c1, c2 \in committed'.customers :
             (c1 # c2 /\ c1.admin_id = c2.admin_id)
             => ~EqualIgnoringCase(c1.fullname, c2.fullname)
       /\ \A a \in Admins, c \in CustomerIdArgs, n \in Names :
             (/\ \E k \in live.customers : k.id = c /\ k.admin_id = a
              /\ \E o \in live.customers :
                    o.admin_id = a /\ o.id # c /\ EqualIgnoringCase(o.fullname, n)
              /\ UpdateCustomerName(a, c, n))
             => last'.res = "AppError"]_vars

\* a rename was refused with AppError and the log row it left pending names
\* a customer of the admin and a new name that differs only in letter case
\* from the name of another customer of the same admin
C13_Witness ==
    /\ last.op = "update_customer_name" /\ last.res = "AppError"
    /\ \E l \in live.action_logs \ committed.action_logs :
          /\ l.action_type = "rename_customer"
          /\ \E k, o \in committed.customers :
                /\ k.id = l.customer_id /\ k.admin_id = l.admin_id
                /\ o.admin_id = l.admin_id /\ o.id # k.id
                /\ json_loads(l.payload).undo_args.new_name # o.fullname
                /\ EqualIgnoringCase(json_loads(l.payload).undo_args.new_name,
                                     o.fullname)

\* the step is one call made with the admin identity a
OperationBy(a) ==
    \/ \E n \in Names, p \in AddPhones : AddCustomer(a, n, p)
    \/ \E c \in CustomerIdArgs : DeleteCustomer(a, c)
    \/ \E c \in CustomerIdArgs, n \in Names : UpdateCustomerName(a, c, n)
    \/ \E c \in CustomerIdArgs, p \in NewPhones : UpdateCustomerPhone(a, c, p)
    \/ \E c \in CustomerIdArgs, m \in Amounts, t \in TypeArgs,
          d \in Descriptions : AddTransaction(a, c, m, t, d)
    \/ \E f \in BOOLEAN : Undo(a, f)

\* the durable rows of the three tables that the admin b owns
RowsOf(db, b) ==
    [customers |-> {c \in db.customers : c.admin_id = b},
     transactions |-> {t \in db.transactions : t.admin_id = b},
     action_logs |-> {l \in db.action_logs : l.admin_id = b}]

\* C14: a call made with admin identity a leaves every customer row, balance,
\* transaction row and log row of any other admin as it was, and
\* add_transaction by a for a customer that another admin owns fails and
\* changes nothing.
C14_AdminPartitioning ==
    [][\A a \in Admins :
          OperationBy(a)
          => /\ \A b \in Admins \ {a} :
                   RowsOf(committed', b) = RowsOf(committed, b)
             /\ \A c \in CustomerIdArgs, m \in Amounts, t \in TransactionType,
                  d \in Descriptions :
                   (/\ \E k \in live.customers : k.id = c /\ k.admin_id # a
                    /\ AddTransaction(a, c, m, t, d))
                   => last'.res # "ok" /\ committed' = committed]_vars

\* C15: the outcome of an admin's call does not depend on what another admin
\* has done: add_customer with a name that no customer of the calling admin
\* holds, ignoring letter case, succeeds whoever else holds that name.
C15_CrossAdminIndependence ==
    [][\A a \in Admins, n \in Names, p \in AddPhones :
          (/\ ~ \E c \in live.customers :
                   c.admin_id = a /\ EqualIgnoringCase(c.fullname, n)
           /\ AddCustomer(a, n, p))
          => last'.res = "ok"]_vars

\* the sweep, taken to happen at the instant ts, did what is asked of it: a
\* row created more than the retention period before ts is in the archive
\* and not in the log, a row created less than the retention period before ts
\* is in the log, as it was, and not in the archive
SweptAt(ts) ==
    \A l \in live.action_logs :
       /\ l.created_at < ts - Retention
          => /\ l \in committed'.action_logs_archive
             /\ l \notin committed'.action_logs
       /\ l.created_at > ts - Retention
          => /\ l \in committed'.action_logs
             /\ l \notin committed'.action_logs_archive

\* C16: after clear_old_logs has run there is an instant of the sweep,
\* between its call and its return, for which every log row older than the
\* retention period is archived and gone from the log and every younger row
\* is still in the log, unchanged, and not archived.
C16_RetentionSweep ==
    [][\A delay \in 0..MaxSweepDelay :
          ClearOldLogs(delay) => \E ts \in clock..clock' : SweptAt(ts)]_vars

\* the customers of an admin that the due view is about
DueRows(a) == {c \in committed.customers : c.admin_id = a /\ c.balance < 0}

\* ascending (balance, id) order: x comes strictly before y
DueBefore(x, y) ==
    x.balance < y.balance \/ (x.balance = y.balance /\ x.id < y.id)

\* C17: in the due view read with a limit of 1 or more, from no cursor and
\* then from the (balance, id) of the last item returned, the pages put end
\* to end hold only customers of the admin with a balance below 0, in
\* strictly ascending (balance, id) order (so none twice), with no such
\* customer skipped before the last item, and all of them once a page comes
\* back empty.
C17_DuePagination ==
    (last.op = "fetch_balances_page" /\ last.mode = "due_customers"
        /\ last.limit >= 1)
    => /\ \A i \in 1..Len(last.seen) : last.seen[i] \in DueRows(last.admin_id)
       /\ \A i \in 1..(Len(last.seen) - 1) :
             DueBefore(last.seen[i], last.seen[i + 1])
       /\ \A c \in DueRows(last.admin_id) :
             \/ \E i \in 1..Len(last.seen) : last.seen[i] = c
             \/ /\ last.items # <<>>
                /\ DueBefore(last.seen[Len(last.seen)], c)

\* the due view of an admin was read to its end one customer at a time, and
\* two of the three customers it returned share a balance
C17_Witness ==
    /\ last.op = "fetch_balances_page" /\ last.mode = "due_customers"
    /\ last.limit = 1 /\ last.items = <<>>
    /\ Len(last.seen) = 3
    /\ \E i \in 1..2 : last.seen[i].balance = last.seen[i + 1].balance

\* the rows a pager call is about
ViewRows ==
    IF last.op = "fetch_balances_page"
    THEN {c \in committed.customers :
             /\ c.admin_id = last.admin_id
             /\ IF last.mode = "due_customers" THEN c.balance < 0
                ELSE c.balance > 0}
    ELSE IF last.op = "fetch_transactions_page"
    THEN {t \in committed.transactions :
             t.admin_id = last.admin_id /\ t.customer_id = last.customer_id}
    ELSE {l \in committed.action_logs : l.admin_id = last.admin_id}

\* the row r comes after the position pos in the order of the view
ViewAfter(r, pos) ==
    IF last.op = "fetch_balances_page"
    THEN \/ IF last.mode = "due_customers" THEN pos.balance < r.balance
            ELSE pos.balance > r.balance
         \/ pos.balance = r.balance /\ pos.id < r.id
    ELSE r.id < pos.id

\* the rows of the view after the last item of the page or, for a page
\* without items, after the cursor it was asked from
FurtherRows ==
    IF last.items # <<>>
    THEN {r \in ViewRows : ViewAfter(r, last.items[Len(last.items)])}
    ELSE IF last.cursor = NoCursor THEN ViewRows
    ELSE {r \in ViewRows : ViewAfter(r, last.cursor)}

\* C18: a page of any of the three pagers has at most `limit` items, and its
\* has_more is true exactly when a row of the view comes after its last item.
C18_PageSizeAndHasMore ==
    last.op \in {"fetch_balances_page", "fetch_transactions_page",
                 "fetch_action_logs_page"}
    => /\ Len(last.items) <= last.limit
       /\ last.has_more <=> FurtherRows # {}

\* a page asked from a cursor came back full, with nothing after it
C18_Witness ==
    /\ last.op \in {"fetch_balances_page", "fetch_transactions_page",
                    "fetch_action_logs_page"}
    /\ last.cursor # NoCursor
    /\ last.limit = 2 /\ Len(last.items) = 2
    /\ ~last.has_more

\* the three tables of a database, without the sequences and the archive
Tables(db) ==
    [customers |-> db.customers, transactions |-> db.transactions,
     action_logs |-> db.action_logs]

\* C19: delete_customer for a customer id that the requesting admin does not
\* own (no such customer, or another admin's) fails with the application
\* error (AppError), not with the generic unexpected fault, and leaves the
\* durable customers, transactions and action logs as they were.
C19_NotFoundOnDelete ==
    [][\A a \in Admins, c \in CustomerIdArgs :
          (/\ DeleteCustomer(a, c)
           /\ get_customer_by_id(conn_now, c, a) = NoRow)
          => /\ last'.res = "AppError"
             /\ Tables(committed') = Tables(committed)]_vars

\* the log row of a transaction row
LogRowOf(db, t) ==
    {l \in db.action_logs :
        /\ l.action_type = "add_transaction"
        /\ json_loads(l.payload).undo_args.transaction_id = t.id}

\* C20: whatever the order in which the add_transaction calls of different
\* admins take their turns on the shared connection, the durable state never
\* holds a balance update without its transaction row (or the row without the
\* update), nor a transaction row without its log row.
C20_AtomicUnits ==
    /\ \A c \in committed.customers : c.balance = LedgerSum(committed, c.id)
    /\ \A t \in committed.transactions : LogRowOf(committed, t) # {}

\* both coroutines have returned their transaction_log
BothReturned == \A k \in Coroutines : tasks[k].pc = "idle" /\ tasks[k].res = "ok"

\* the balance after the deltas of the coroutines k1 then k2 were added to 0
BalanceAfter(k1, k2) ==
    RealAdd(RealAdd(0, BalanceDelta(tasks[k1].amount, tasks[k1].type_)),
            BalanceDelta(tasks[k2].amount, tasks[k2].type_))

\* C21: when two add_transaction calls for the same customer, interleaved at
\* their awaited calls, both return success, the durable balance is the
\* initial balance (0) with both signed deltas added (in one order or the
\* other) and both transaction rows are durable, each under its own id.
C21_NoLostUpdate ==
    BothReturned
    => /\ \A c \in committed.customers :
             c.balance \in {BalanceAfter(1, 2), BalanceAfter(2, 1)}
       /\ tasks[1].transaction_id # tasks[2].transaction_id
       /\ \A k \in Coroutines :
             \E t \in committed.transactions :
                /\ t.id = tasks[k].transaction_id
                /\ t.amount = tasks[k].amount /\ t.type = tasks[k].type_
                /\ t.customer_id = tasks[k].customer_id

\* both returned, and the first commit made the balance update of the other
\* coroutine durable before its transaction row was inserted
C21_Witness ==
    /\ BothReturned
    /\ Cardinality(last.pre.transactions) = 1
    /\ \E c \in last.pre.customers :
          c.balance = BalanceAfter(1, 2) /\ c.balance # 0

\* the rows of `logs` that admin a owns and that no row of a is newer than
NewestOf(logs, a) ==
    {l \in logs : /\ l.admin_id = a
                  /\ \A m \in logs : m.admin_id = a => m.id <= l.id}

\* the log rows `before` and `after` an undo of admin a: no row was added or
\* changed, and the only row that may be gone is the newest row of a
OnlyNewestGone(before, after, a) ==
    /\ after \subseteq before
    /\ before \ after \subseteq NewestOf(before, a)

\* C22: an undo of admin a adds and changes no log row and removes at most
\* one, the row of a with the greatest id; when it succeeds that row is
\* removed and it is the row whose inverse was applied.  This holds of the
\* durable log and, when no earlier call had left a transaction open, of the
\* connection's view of the log.
C22_UndoSelection ==
    [][\A a \in Admins, f \in BOOLEAN :
          Undo(a, f)
          => /\ OnlyNewestGone(committed.action_logs, committed'.action_logs, a)
             /\ ~in_tx => OnlyNewestGone(live.action_logs, live'.action_logs, a)
             /\ last'.res = "ok"
                => /\ committed.action_logs \ committed'.action_logs
                         = NewestOf(committed.action_logs, a)
                   /\ \A l \in NewestOf(committed.action_logs, a) :
                         last'.id = l.id /\ last'.kind = l.action_type]_vars

\* an undo succeeded for an admin that had an older log row, which is still
\* there, while another admin has a log row too
C22_Witness ==
    /\ last.op = "undo" /\ last.res = "ok"
    /\ \E l \in committed.action_logs :
          l.admin_id = last.admin_id /\ l.id < last.id
    /\ \E l \in committed.action_logs : l.admin_id # last.admin_id

\* C23: whatever the kind of the action undone, the inverse mutation and the
\* removal of the consumed log row become durable together: an undo after
\* which the durable customers or transactions differ has also removed the
\* admin's newest log row from the durable log.
C23_InverseAndLogClearTogether ==
    [][\A a \in Admins, f \in BOOLEAN :
          (/\ Undo(a, f)
           /\ \/ committed'.customers # committed.customers
              \/ committed'.transactions # committed.transactions)
          => NewestOf(committed.action_logs, a) \cap committed'.action_logs
                = {}]_vars

\* the log rows of admin b among `logs`
LogRowsOf(logs, b) == {l \in logs : l.admin_id = b}

\* C24: a successful undo of admin a inserts no log row: a has exactly one
\* log row fewer than before, in the connection's view and durably, and the
\* log rows of every other admin are as they were.
C24_UndoNotLogged ==
    [][\A a \in Admins, f \in BOOLEAN :
          (Undo(a, f) /\ last'.res = "ok")
          => /\ live'.action_logs \subseteq live.action_logs
             /\ Cardinality(LogRowsOf(live'.action_logs, a))
                   = Cardinality(LogRowsOf(live.action_logs, a)) - 1
             /\ Cardinality(LogRowsOf(committed'.action_logs, a))
                   = Cardinality(LogRowsOf(committed.action_logs, a)) - 1
             /\ \A b \in Admins \ {a} :
                   /\ LogRowsOf(live'.action_logs, b)
                         = LogRowsOf(live.action_logs, b)
                   /\ LogRowsOf(committed'.action_logs, b)
                         = LogRowsOf(committed.action_logs, b)]_vars

\* an undo succeeded and left its admin without any log row while another
\* admin has one
C24_Witness ==
    /\ last.op = "undo" /\ last.res = "ok"
    /\ LogRowsOf(committed.action_logs, last.admin_id) = {}
    /\ LogRowsOf(last.pre.action_logs, last.admin_id) # {}
    /\ \E l \in committed.action_logs : l.admin_id # last.admin_id

\* the keys of the 'undo-args' map of a log row
UndoArgsOf(l) == DOMAIN json_loads(l.payload).undo_args

\* C25: the 'undo-args' of every log row a forward operation has written are
\* the arguments of the inverse of its kind: exactly the parameters of the
\* DatabaseManager.undo_* method the map is spread into and, for
\* add_transaction, the keys its helper reads.
C25_PayloadInverseAgreement ==
    \A l \in committed.action_logs :
       IF l.action_type = "add_transaction"
       THEN {"transaction_id", "customer_id", "admin_id"} \subseteq UndoArgsOf(l)
       ELSE UndoArgsOf(l) = InverseParams(l.action_type)

\* the snapshot in the undo_args u is that of the customer row c
SnapshotOf(u, c) ==
    /\ u.customer_id = c.id /\ u.fullname = c.fullname /\ u.phone = c.phone
    /\ u.balance = c.balance /\ u.created_at = c.created_at

\* C26: the log row a successful delete_customer writes holds the customer's
\* id, name, phone, balance and creation time as they were before the delete
\* and every transaction row the delete has removed, as it was.
C26_DeleteSnapshotComplete ==
    [][\A a \in Admins, c \in CustomerIdArgs :
          (DeleteCustomer(a, c) /\ last'.res = "ok")
          => \E l \in live'.action_logs \ live.action_logs :
                /\ l.action_type = "delete_customer"
                /\ \E row \in live.customers \ live'.customers :
                      SnapshotOf(json_loads(l.payload).undo_args, row)
                /\ json_loads(l.payload).undo_args.customer_transactions
                      = live.transactions \ live'.transactions]_vars

\* every transaction row of the database belongs to a customer row of it
Referenced(db) ==
    \A t \in db.transactions : \E c \in db.customers : c.id = t.customer_id

\* C27: every durable state a call leaves has each transaction row under an
\* existing customer; a successful delete_customer leaves no transaction of
\* the customer; add_transaction for a customer id that does not exist leaves
\* the durable state as it was.
C27_ReferentialIntegrity ==
    [][/\ Referenced(committed')
       /\ \A a \in Admins, c \in CustomerIdArgs :
             (DeleteCustomer(a, c) /\ last'.res = "ok")
             => \A t \in committed'.transactions : t.customer_id # c
       /\ \A a \in Admins, c \in CustomerIdArgs, m \in Amounts,
             t \in TransactionType, d \in Descriptions :
             (/\ \A x \in live.customers : x.id # c
              /\ AddTransaction(a, c, m, t, d))
             => /\ last'.res # "ok"
                /\ committed' = committed]_vars

\* a customer that had a transaction was deleted
C27_Witness ==
    /\ last.op = "delete_customer" /\ last.res = "ok"
    /\ \E t \in last.pre.transactions : t.customer_id = last.customer_id
    /\ committed.customers # {}

\* C28: a successful add_customer followed at once by the same admin's undo
\* (all of whose statements run) leaves no customer with the id add_customer
\* returned, every other customer and every transaction as they were, and the
\* add_customer log row out of the log.
C28_UndoOfAddCustomer ==
    [][\A a \in Admins :
          (JustDid("add_customer", a) /\ Undo(a, FALSE))
          => /\ last'.res = "ok" /\ last'.kind = "add_customer"
             /\ \A c \in committed'.customers : c.id # last.id
             /\ committed'.customers
                   = {c \in committed.customers : c.id # last.id}
             /\ committed'.transactions = committed.transactions
             /\ committed'.action_logs
                   = {l \in committed.action_logs :
                         ~(/\ l.action_type = "add_customer"
                           /\ l.customer_id = last.id /\ l.admin_id = a)}
             /\ committed'.action_logs # committed.action_logs]_vars

\* an add_customer has just been undone by the call after it, while other
\* customers and a transaction exist
C28_Witness ==
    /\ last.op = "undo" /\ last.res = "ok" /\ last.direct
    /\ last.kind = "add_customer"
    /\ committed.customers # {} /\ committed.transactions # {}
    /\ Cardinality(last.pre.customers) = Cardinality(committed.customers) + 1

\* C29: a successful update_customer_phone followed at once by the same
\* admin's undo (all of whose statements run) leaves the customer's phone as
\* it was before the change, None included, and every name and balance as it
\* was.
C29_PhoneRoundTrip ==
    [][\A a \in Admins :
          (JustDid("update_customer_phone", a) /\ Undo(a, FALSE))
          => /\ last'.res = "ok" /\ last'.kind = "change_phone"
             /\ \A c \in committed'.customers :
                   \E b \in last.pre.customers :
                      /\ b.id = c.id /\ b.phone = c.phone
                      /\ b.fullname = c.fullname /\ b.balance = c.balance
             /\ Cardinality(committed'.customers)
                   = Cardinality(last.pre.customers)]_vars

\* a phone change of a customer that had no phone and owes money has just
\* been undone by the call after it
C29_Witness ==
    /\ last.op = "undo" /\ last.res = "ok" /\ last.direct
    /\ last.kind = "change_phone"
    /\ \E c \in committed.customers : \E b \in last.pre.customers :
          /\ b.id = c.id /\ b.phone # None /\ c.phone = None
          /\ c.balance # 0

\* the customers of an admin that the overpaid view is about
OverpaidRows(a) == {c \in committed.customers : c.admin_id = a /\ c.balance > 0}

\* descending balance, then ascending id: x comes strictly before y
OverpaidBefore(x, y) ==
    x.balance > y.balance \/ (x.balance = y.balance /\ x.id < y.id)

\* C30: in the overpaid view read with a limit of 1 or more, from no cursor
\* and then from the (balance, id) of the last item returned, the pages put
\* end to end hold only customers of the admin with a balance above 0, in
\* strictly descending balance and, among equal balances, ascending id (so
\* none twice), with no such customer skipped before the last item, and all
\* of them once a page comes back empty.
C30_OverpaidPagination ==
    (last.op = "fetch_balances_page" /\ last.mode = "overpaid_customers"
        /\ last.limit >= 1)
    => /\ \A i \in 1..Len(last.seen) :
             last.seen[i] \in OverpaidRows(last.admin_id)
       /\ \A i \in 1..(Len(last.seen) - 1) :
             OverpaidBefore(last.seen[i], last.seen[i + 1])
       /\ \A c \in OverpaidRows(last.admin_id) :
             \/ \E i \in 1..Len(last.seen) : last.seen[i] = c
             \/ /\ last.items # <<>>
                /\ OverpaidBefore(last.seen[Len(last.seen)], c)

\* the overpaid view of an admin was read to its end one customer at a time:
\* three customers, the first with a greater balance than the two that share
\* one
C30_Witness ==
    /\ last.op = "fetch_balances_page" /\ last.mode = "overpaid_customers"
    /\ last.limit = 1 /\ last.items = <<>>
    /\ Len(last.seen) = 3
    /\ last.seen[1].balance > last.seen[2].balance
    /\ last.seen[2].balance = last.seen[3].balance

\* C31: fetch_transactions_page and fetch_action_logs_page read with a limit
\* of 1 or more, from no cursor and then from the next_cursor of the page
\* before: a page asked from a cursor holds only rows with a smaller id, and
\* the pages put end to end hold only rows of the view (the customer's
\* transactions of the admin, the admin's log rows), in strictly descending
\* id order (so none twice), with no row of the view skipped before the last
\* item, and all of them once a page comes back empty.
C31_IdentityCursorHistory ==
    (last.op \in {"fetch_transactions_page", "fetch_action_logs_page"}
        /\ last.limit >= 1)
    => /\ last.cursor # NoCursor
          => \A i \in 1..Len(last.items) : last.items[i].id < last.cursor.id
       /\ \A i \in 1..Len(last.seen) : last.seen[i] \in ViewRows
       /\ \A i \in 1..(Len(last.seen) - 1) :
             last.seen[i].id > last.seen[i + 1].id
       /\ \A r \in ViewRows :
             \/ \E i \in 1..Len(last.seen) : last.seen[i] = r
             \/ /\ last.items # <<>>
                /\ r.id < last.seen[Len(last.seen)].id

\* the log of an admin was read to its end two rows at a time, over three
\* pages or more, past rows of the other admin that lie between its own
C31_Witness ==
    /\ last.op = "fetch_action_logs_page"
    /\ last.limit = 2 /\ last.items = <<>>
    /\ Len(last.seen) >= 5
    /\ \E l \in committed.action_logs :
          /\ l.admin_id # last.admin_id
          /\ l.id < last.seen[1].id
          /\ l.id > last.seen[Len(last.seen)].id

\* C32: a facade operation (add_customer, delete_customer, rename_customer,
\* change_phone) that succeeds leaves its mutation committed (no transaction
\* open, the durable database equal to the connection's); called with
\* with_logging=False it leaves the action log as it was, called with
\* with_logging=True it adds exactly one row to it.
C32_LoggingSuppression ==
    [][last'.res = "ok"
       => /\ ~in_tx' /\ committed' = live'
          /\ live.action_logs \subseteq live'.action_logs
          /\ Cardinality(live'.action_logs)
                = Cardinality(live.action_logs)
                     + (IF last'.with_logging THEN 1 ELSE 0)]_vars

\* C33: the facade operations add_customer, rename_customer and change_phone
\* given a name or a phone that validation refuses return the InvalidName or
\* InvalidPhone failure and leave the connection (customers, transactions,
\* action logs, open transaction) and the session's selected customer as
\* they were.
C33_ValidationPrecedesMutation ==
    [][last'.refused
       => /\ last'.res \in {"InvalidName", "InvalidPhone"}
          /\ UNCHANGED <<committed, live, in_tx, user_data>>]_vars

\* a rename to a name that validation refuses was turned down while a
\* customer with a sale is selected
C33_Witness ==
    /\ last.op = "service_rename_customer" /\ last.res = "InvalidName"
    /\ user_data[1] # NoRow
    /\ committed.transactions # {} /\ committed.action_logs # {}

\* C34: add_transaction with a kind other than 'sale' or 'payment' fails with
\* the application error and runs no statement: the durable database and the
\* connection's view (balances, transactions, action logs) are as they were
\* and the call opens no transaction on the connection.
C34_InvalidKind ==
    [][\A a \in Admins, c \in CustomerIdArgs, m \in Amounts, d \in Descriptions :
          AddTransaction(a, c, m, "gift", d)
          => /\ last'.res = "AppError"
             /\ committed' = committed
             /\ live' = live
             /\ in_tx' = in_tx]_vars

\* add_transaction has just failed with the application error on a store
\* that holds a customer and a transaction, with no transaction open
C34_Witness ==
    /\ last.op = "add_transaction" /\ last.res = "AppError"
    /\ committed.customers # {} /\ committed.transactions # {}
    /\ ~in_tx

\* the session's selected customer, if there is one, is a customer of the
\* admin in the store, with the name and the balance the session holds
CacheAgrees(a) ==
    user_data[a] # NoRow
    => \E c \in live.customers :
          /\ c.id = user_data[a].customer_id /\ c.admin_id = a
          /\ c.fullname = user_data[a].fullname
          /\ c.balance = user_data[a].balance

\* C35: after any undo_last_action_for_admin call, successful or failed, a
\* session that has a selected customer holds a customer that exists in the
\* store for that admin, with the stored full name and balance.
C35_SessionCacheAfterUndo ==
    last.op = "undo" => \A a \in SessionAdmins : CacheAgrees(a)

C37_LifoMultiStepUndo ==
    last.undoing
    => /\ last.res = "ok"
       /\ last.kind = last.top
       /\ last.stack = <<>>
          => /\ committed.customers = last.start.customers
             /\ committed.transactions = last.start.transactions
             /\ \A a \in SessionAdmins :
                   LogRowsOf(committed.action_logs, a)
                      = LogRowsOf(last.start.action_logs, a)

\* C38: the sweep loses no log row: every row that clear_old_logs removes
\* from action_logs is in action_logs_archive when the sweep has committed,
\* however much time passes between its two statements, and the rows of the
\* log and of the archive taken together are the same before and after.
C38_SweepLosesNoRow ==
    [][last'.op = "clear_old_logs"
       => /\ (live.action_logs \ committed'.action_logs)
                \subseteq committed'.action_logs_archive
          /\ committed'.action_logs \cup committed'.action_logs_archive
                = live.action_logs \cup live.action_logs_archive]_vars

\* C39: the log insert of a mutating operation is committed only by the
\* operation's own commit: a logged add_customer, delete_customer or
\* add_transaction that is called with with_commit=False and succeeds
\* commits nothing, so the durable store is the one of before the call and
\* the transaction stays open.
C39_DeferredLogCommit ==
    [][(last'.res = "ok" /\ ~last'.with_commit)
       => /\ committed' = committed
          /\ in_tx'
          /\ live'.action_logs # committed'.action_logs]_vars

====
